---- MODULE Spec2Model ----
(***************************************************************************)
(* Selective cleanup of stow targets (src/tui/main.py).                    *)
(*                                                                         *)
(* A path is the tuple of its pathlib parts: an absolute path starts with  *)
(* the anchor "/", a relative one does not ("~/x" is <<"~", "x">>).  The   *)
(* target strings handed to the worker are str(pathlib.Path) values, so    *)
(* the number of separators in the string is Len(parts) - 1.               *)
(*                                                                         *)
(* The filesystem is a finite tree of canonical locations; each location   *)
(* holds nothing, a regular file, a directory or a symbolic link.  It is a *)
(* function from the locations of the region a specification looks at.    *)
(***************************************************************************)
EXTENDS Integers, Sequences, FiniteSets, TLC

VARIABLES
    fs,             \* the filesystem: canonical location -> node
    fs0,            \* the filesystem when the worker was dispatched (history)
    denied,         \* the locations whose removal the OS refuses (EACCES, EPERM)
    files,          \* worker argument: file targets
    dirs,           \* worker argument: directory targets
    env_dry,        \* the value of DOTFILES_REMOVE_DRY in the environment
    env_force,      \* the value of DOTFILES_REMOVE_FORCE in the environment
    dry,            \* the local dry of the worker
    force,          \* the local force of the worker
    pc,             \* position of the worker thread, "idle" when none is alive
    i,              \* index of the next target in the running loop
    dirs_sorted,    \* the local dirs_sorted of the worker
    files_removed,
    dirs_removed,
    skipped,
    errors,
    log,            \* LogBuf.lines written through logger, as records
    hist,           \* one record per processed target (history)
    summary,        \* the dict returned by the worker
    cwd,            \* os.getcwd() of the process (<<>>: it cannot be determined)
    gpath,          \* argument of a direct inside_home_guard call
    gres,           \* its result ("none" before the call)
    ecalls,         \* the direct calls of enumerate_stow_targets_for_pkgs (history)
    stow,           \* the package trees under STOW_DIR
    selected_stow,  \* main: the selected package names
    idx,            \* main: the cursor in the stow pane
    main_files,     \* main: the local files (targets enumerated by the D handler)
    main_dirs,      \* main: the local dirs
    dialog,         \* confirm_remove_dialog: "closed" or "open"
    typed,          \* confirm_remove_dialog: the local typed
    confirm,        \* what the last confirm_remove_dialog returned ("none", "True", "False")
    keys,           \* keys read by the main loop and the dialog so far (bounded)
    is_running,     \* main: is_running
    ui_events,      \* the queue ui_events
    suppress,       \* main: suppress_enter_once
    job,            \* the function the latest thread wraps: "none", "stow", "cleanup"
    stow_list,      \* stow_selected: the local selected_list
    sel0,           \* selected_stow when the latest thread was dispatched (history)
    calls,          \* the number of run_async calls (history)
    runs,           \* the number of threads started (history)
    nres,           \* the number of result messages the wrappers queued (history)
    nshown,         \* the number of result messages shown as a toast (history)
    sources,        \* the theme source directories: what each one holds
    dcalls,         \* the direct calls of discover_themes (history)
    selected_names, \* copy_themes_worker argument: the selected theme names
    themes,         \* copy_themes_worker: the local themes
    ok,             \* copy_themes_worker: the local ok
    env_themes_dry,   \* the value of DOTFILES_THEMES_DRY in the environment
    env_themes_force, \* the value of DOTFILES_THEMES_FORCE in the environment
    pcalls,         \* the direct calls of package_plan (history)
    loop,           \* main: the position in one iteration of the main loop
    dirty,          \* log.dirty
    recent,         \* the last log-only redraw is less than LOG_REDRAW_INTERVAL ago
    painted,        \* the log lines some draw has put on the screen (history)
    current_pane,   \* main: current_pane, 0..3
    filter_text,    \* main: filter_text, a sequence of characters
    pane_items,     \* main: stow_pkgs, theme_names, sys_pkgs, plugins, by pane
    selected,       \* main: selected_themes, selected_pkgs, selected_plugins, by pane
    filtered,       \* main: filtered_stow, filtered_themes, filtered_pkgs, filtered_plugins
    bulk            \* the run of bulk selection keys just read (history)

wvars == <<fs, fs0, denied, files, dirs, env_dry, env_force, dry, force, pc, i, dirs_sorted,
           files_removed, dirs_removed, skipped, errors, log, hist, summary>>
tvars == <<sources, dcalls, selected_names, themes, ok, env_themes_dry, env_themes_force,
           pcalls>>
pvars == <<current_pane, filter_text, pane_items, selected, filtered, bulk>>
svars == <<loop, dirty, recent, painted, pvars>>
gvars == <<cwd, gpath, gres, ecalls, tvars, svars>>
dvars == <<job, sel0, calls, runs>>
uvars == <<stow, selected_stow, idx, main_files, main_dirs, dialog, typed, confirm,
           keys, is_running, ui_events, suppress, stow_list, nres, nshown, dvars>>
vars == <<wvars, gvars, uvars>>
\* the worker's variables other than pc
wvars_but_pc == <<fs, fs0, denied, files, dirs, env_dry, env_force, dry, force, i, dirs_sorted,
                  files_removed, dirs_removed, skipped, errors, log, hist, summary>>

----------------------------------------------------------------------------
\* Bounds of the model
MaxFiles == 2
MaxDirs == 3
MaxGuardLen == 4
MaxKeys == 3

----------------------------------------------------------------------------
\* Paths

ROOTFS == <<"/">>
HOME == <<"/", "h">>
OUT == <<"/", "o">>
INSIDE == <<"/", "h", "t">>

Range(q) == {q[k] : k \in 1..Len(q)}

IsPrefix(s, t) == Len(s) <= Len(t) /\ SubSeq(t, 1, Len(s)) = s

Parent(p) == IF Len(p) <= 1 THEN p ELSE SubSeq(p, 1, Len(p) - 1)

----------------------------------------------------------------------------
\* The filesystem

NONE == [k |-> "none", to |-> <<>>]
FILE == [k |-> "file", to |-> <<>>]
DIR == [k |-> "dir", to |-> <<>>]
LINK(t) == [k |-> "link", to |-> t]

\* the three chains of locations base, base/d2, base/d2/x, and one file
Chain(base) == {base, base \o <<"d2">>, base \o <<"d2", "x">>}
D1 == HOME \o <<"d1">>
RC == HOME \o <<"r">>
Nodes == Chain(D1) \cup Chain(INSIDE) \cup Chain(OUT) \cup {RC}

\* "/" and the home directory are directories throughout
FixedDirs == {ROOTFS, HOME}

NodeAt(f, loc) ==
    IF loc \in DOMAIN f THEN f[loc]
    ELSE IF loc \in FixedDirs THEN DIR ELSE NONE

Children(f, loc) ==
    {n \in DOMAIN f : Parent(n) = loc /\ f[n].k # "none"}

Descendants(loc) == {n \in Nodes : IsPrefix(loc, n)}

\* every entry lives in a real directory
WellFormed(f) ==
    \A n \in Nodes : f[n].k # "none" => NodeAt(f, Parent(n)).k = "dir"

\* The kernel's path walk from the real directory cur over the components
\* rest; symbolic links in the middle are followed, the last one only if
\* followLast.  The result names the canonical location reached.
RECURSIVE Walk(_, _, _, _, _)
Walk(f, cur, rest, followLast, fuel) ==
    IF rest = <<>> THEN [ok |-> TRUE, loc |-> cur]
    ELSE
      LET c == Head(rest)
          last == Len(rest) = 1
          cand == Append(cur, c)
          n == NodeAt(f, cand)
      IN  IF c = ".." THEN Walk(f, Parent(cur), Tail(rest), followLast, fuel)
          ELSE IF n.k = "none"
            THEN [ok |-> last, loc |-> cand]
          ELSE IF n.k = "link" /\ (~last \/ followLast)
            THEN IF fuel = 0 THEN [ok |-> FALSE, loc |-> cand]
                 ELSE Walk(f, ROOTFS, Tail(n.to) \o Tail(rest), followLast, fuel - 1)
          ELSE IF last THEN [ok |-> TRUE, loc |-> cand]
          ELSE IF n.k = "dir" THEN Walk(f, cand, Tail(rest), followLast, fuel)
          ELSE [ok |-> FALSE, loc |-> cand]

\* the number of links the kernel follows in one walk before it gives up
MaxSymlinks == 4

\* os.lstat / os.stat of an absolute path: the node, NONE on any error
Lstat(f, p) ==
    LET w == Walk(f, ROOTFS, Tail(p), FALSE, MaxSymlinks)
    IN  IF w.ok THEN NodeAt(f, w.loc) ELSE NONE

Stat(f, p) ==
    LET w == Walk(f, ROOTFS, Tail(p), TRUE, MaxSymlinks)
    IN  IF w.ok THEN NodeAt(f, w.loc) ELSE NONE

\* the canonical location an operation on p acts on (last link not followed)
LocOf(f, p) == Walk(f, ROOTFS, Tail(p), FALSE, MaxSymlinks)

exists(f, p) == Stat(f, p).k # "none"
is_symlink(f, p) == Lstat(f, p).k = "link"
is_file(f, p) == Stat(f, p).k = "file"
is_dir(f, p) == Stat(f, p).k = "dir"

\* Path.resolve(): every symbolic link and ".." resolved
resolve(f, p) ==
    LET w == Walk(f, ROOTFS, Tail(p), TRUE, MaxSymlinks)
    IN  IF w.ok THEN w.loc ELSE p

\* (variant: the link is dereferenced before the removal)
unlink_follow(f, p) ==
    LET w == Walk(f, ROOTFS, Tail(p), TRUE, MaxSymlinks)
        n == NodeAt(f, w.loc)
    IN  IF ~w.ok THEN [ok |-> FALSE, fs |-> f]
        ELSE IF n.k = "none" THEN [ok |-> TRUE, fs |-> f]
        ELSE IF n.k = "dir" \/ w.loc \notin Nodes THEN [ok |-> FALSE, fs |-> f]
        ELSE [ok |-> TRUE, fs |-> [f EXCEPT ![w.loc] = NONE]]

\* Path.unlink(missing_ok=True): removes a file or a link, never follows it;
\* a directory, a non-directory ancestor or a refusal of the OS raises
unlink(f, p) ==
    LET w == LocOf(f, p)
        n == NodeAt(f, w.loc)
    IN  IF ~w.ok THEN [ok |-> FALSE, fs |-> f]
        ELSE IF n.k = "none" THEN [ok |-> TRUE, fs |-> f]
        ELSE IF n.k = "dir" \/ w.loc \notin DOMAIN f \/ w.loc \in denied
          THEN [ok |-> FALSE, fs |-> f]
        ELSE [ok |-> TRUE, fs |-> [f EXCEPT ![w.loc] = NONE]]

\* (variant: a non-empty directory is removed with its contents)
rmdir_recursive(f, p) ==
    LET w == LocOf(f, p)
        n == NodeAt(f, w.loc)
    IN  IF ~w.ok \/ n.k # "dir" \/ w.loc \notin Nodes
          THEN [ok |-> FALSE, err |-> "other", fs |-> f]
        ELSE [ok |-> TRUE, err |-> "",
              fs |-> [m \in Nodes |-> IF m \in Descendants(w.loc) THEN NONE ELSE f[m]]]

\* os.rmdir: removes an empty directory; err is "notempty" (errno 39) or
\* "other" (the permission to remove is checked before the emptiness)
rmdir(f, p) ==
    LET w == LocOf(f, p)
        n == NodeAt(f, w.loc)
    IN  IF ~w.ok \/ n.k # "dir" \/ w.loc \notin Nodes \/ w.loc \in denied
          THEN [ok |-> FALSE, err |-> "other", fs |-> f]
        ELSE IF Children(f, w.loc) # {}
          THEN [ok |-> FALSE, err |-> "notempty", fs |-> f]
        ELSE [ok |-> TRUE, err |-> "", fs |-> [f EXCEPT ![w.loc] = NONE]]

\* (variant: only an empty directory is removed)
rmtree_empty_only(f, p) ==
    LET w == LocOf(f, p)
        n == NodeAt(f, w.loc)
    IN  IF ~w.ok \/ n.k # "dir" \/ w.loc \notin Nodes \/ Children(f, w.loc) # {}
          THEN [ok |-> FALSE, fs |-> f]
        ELSE [ok |-> TRUE, fs |-> [f EXCEPT ![w.loc] = NONE]]

\* shutil.rmtree: removes the directory and everything below it without
\* following links; refuses a path that is itself a link.  The contents go
\* first (deepest first); the first removal the OS refuses raises, and what
\* was removed before it stays removed
rmtree(f, p) ==
    LET w == LocOf(f, p)
        n == NodeAt(f, w.loc)
        below == {m \in DOMAIN f : IsPrefix(w.loc, m)}
        blocked == {m \in below : f[m].k # "none" /\ m \in denied}
        gone == {m \in below : \A b \in blocked : Len(m) > Len(b)}
    IN  IF ~w.ok \/ n.k # "dir" \/ w.loc \notin DOMAIN f
          THEN [ok |-> FALSE, fs |-> f]
        ELSE [ok |-> blocked = {},
              fs |-> [m \in DOMAIN f |-> IF m \in gone THEN NONE ELSE f[m]]]

----------------------------------------------------------------------------
\* inside_home_guard

IsAbsolute(p) == p # <<>> /\ p[1] = "/"

\* Path.expanduser(): a leading "~" part is replaced by the home directory
expanduser(p) == IF p # <<>> /\ p[1] = "~" THEN HOME \o Tail(p) ELSE p

\* Path.absolute(): a relative path is joined to the working directory, with
\* no normalisation; it raises when the working directory cannot be determined
absolute(c, p) ==
    IF IsAbsolute(p) THEN [ok |-> TRUE, path |-> p]
    ELSE IF c = <<>> THEN [ok |-> FALSE, path |-> p]
    ELSE [ok |-> TRUE, path |-> c \o p]

\* PurePath.is_relative_to: other's parts are a prefix of the path's parts
is_relative_to(p, other) == IsPrefix(other, p)

\* (variant: containment tested against the parent of the home directory)
inside_home_guard_parent(path) ==
    LET a == absolute(cwd, expanduser(path))
    IN  IF ~a.ok THEN FALSE ELSE is_relative_to(a.path, Parent(HOME))

inside_home_guard(path) ==
    LET a == absolute(cwd, expanduser(path))
    IN  IF ~a.ok THEN FALSE ELSE is_relative_to(a.path, HOME)

----------------------------------------------------------------------------
\* selective_cleanup_worker

Entry(level, msg, path) == [level |-> level, msg |-> msg, path |-> path]

Outcome(f, level, msg, path, fr, dr, sk, er) ==
    [fs |-> f, entry |-> Entry(level, msg, path),
     files_removed |-> fr, dirs_removed |-> dr, skipped |-> sk, errors |-> er]

\* (variant: a failed unlink is swallowed without being counted)
FileOutcome_uncounted(f, p, isDry) ==
    IF ~inside_home_guard(p)
      THEN Outcome(f, "warn", "skip: outside $HOME (guard)", p, 0, 0, 1, 0)
    ELSE IF ~exists(f, p) /\ ~is_symlink(f, p)
      THEN Outcome(f, "info", "skip: not found", p, 0, 0, 1, 0)
    ELSE IF isDry
      THEN Outcome(f, "info", "plan: unlink", p, 0, 0, 0, 0)
    ELSE LET r == unlink(f, p)
         IN  IF r.ok
               THEN Outcome(r.fs, "success", "removed", p, 1, 0, 0, 0)
               ELSE Outcome(f, "error", "failed to remove file/link", p, 0, 0, 0, 0)

\* one iteration of "for f in files" (lines 219-244)
FileOutcome(f, p, isDry) ==
    IF ~inside_home_guard(p)
      THEN Outcome(f, "warn", "skip: outside $HOME (guard)", p, 0, 0, 1, 0)
    ELSE IF ~exists(f, p) /\ ~is_symlink(f, p)
      THEN Outcome(f, "info", "skip: not found", p, 0, 0, 1, 0)
    ELSE IF isDry
      THEN Outcome(f, "info", "plan: unlink", p, 0, 0, 0, 0)
    ELSE LET r == unlink(f, p)
         IN  IF r.ok
               THEN Outcome(r.fs, "success", "removed", p, 1, 0, 0, 0)
               ELSE Outcome(f, "error", "failed to remove file/link", p, 0, 0, 0, 1)

\* the count of os.sep in the target string
Depth(p) == Len(p) - 1

\* (variant: reverse=True forgotten, shallowest first)
RECURSIVE SortedByDepthAsc(_)
SortedByDepthAsc(s) ==
    IF s = <<>> THEN <<>>
    ELSE LET x == Head(s)
             t == SortedByDepthAsc(Tail(s))
             Shallower(y) == Depth(y) < Depth(x)
             NotShallower(y) == ~Shallower(y)
         IN  SelectSeq(t, Shallower) \o <<x>> \o SelectSeq(t, NotShallower)

\* sorted(dirs, key=lambda s: s.count(os.sep), reverse=True): stable
RECURSIVE SortedByDepthDesc(_)
SortedByDepthDesc(s) ==
    IF s = <<>> THEN <<>>
    ELSE LET x == Head(s)
             t == SortedByDepthDesc(Tail(s))
             Deeper(y) == Depth(y) > Depth(x)
             NotDeeper(y) == ~Deeper(y)
         IN  SelectSeq(t, Deeper) \o <<x>> \o SelectSeq(t, NotDeeper)

\* (variant: the lexical check is repeated instead of resolving)
ResolvedUnderHome_lexical(f, p) == is_relative_to(p, HOME)

\* the check made before shutil.rmtree (lines 290-291)
ResolvedUnderHome(f, p) == is_relative_to(resolve(f, p), HOME)

\* one iteration of "for d in dirs_sorted" (lines 250-319)
DirOutcome(f, p, isDry, isForce) ==
    IF ~inside_home_guard(p)
      THEN Outcome(f, "warn", "skip dir: outside $HOME (guard)", p, 0, 0, 1, 0)
    ELSE IF ~exists(f, p) /\ ~is_symlink(f, p)
      THEN Outcome(f, "info", "skip dir: not found", p, 0, 0, 1, 0)
    ELSE IF is_file(f, p) \/ is_symlink(f, p)
      THEN IF isDry
             THEN Outcome(f, "info", "plan: unlink file/symlink for dir target", p, 0, 0, 0, 0)
           ELSE LET r == unlink(f, p)
                IN  IF r.ok
                      THEN Outcome(r.fs, "success", "removed file/symlink for dir target", p, 1, 0, 0, 0)
                      ELSE Outcome(f, "error", "failed to unlink for dir target", p, 0, 0, 0, 1)
    ELSE IF isDry
      THEN Outcome(f, "info", IF isForce THEN "plan: rmtree" ELSE "plan: rmdir (if empty)", p, 0, 0, 0, 0)
    ELSE IF isForce
      THEN IF is_symlink(f, p)
             THEN LET r == unlink(f, p)
                  IN  IF r.ok
                        THEN Outcome(r.fs, "success", "removed symlink dir", p, 1, 0, 0, 0)
                        ELSE Outcome(f, "error", "failed to remove dir recursively", p, 0, 0, 0, 1)
           ELSE IF ~ResolvedUnderHome(f, p)
             THEN Outcome(f, "error", "refuse rmtree outside $HOME after resolve", p, 0, 0, 0, 1)
           ELSE LET r == rmtree(f, p)
                IN  IF r.ok
                      THEN Outcome(r.fs, "success", "removed dir (recursive)", p, 0, 1, 0, 0)
                      ELSE Outcome(f, "error", "failed to remove dir recursively", p, 0, 0, 0, 1)
    ELSE LET r == rmdir(f, p)
         IN  IF r.ok
               THEN Outcome(r.fs, "success", "removed dir (empty)", p, 0, 1, 0, 0)
             ELSE IF r.err = "notempty"
               THEN Outcome(f, "info", "skip dir not empty", p, 0, 0, 1, 0)
             ELSE Outcome(f, "error", "failed to rmdir", p, 0, 0, 0, 1)

\* the effect of one iteration on the worker's state; hist remembers the
\* target, the location it named and the filesystem before and after
Apply(phase, p, o) ==
    /\ fs' = o.fs
    /\ log' = Append(log, o.entry)
    /\ hist' = Append(hist, [phase |-> phase, path |-> p, loc |-> LocOf(fs, p).loc,
                             pre |-> fs, post |-> o.fs, msg |-> o.entry.msg,
                             level |-> o.entry.level,
                             files_removed |-> o.files_removed,
                             dirs_removed |-> o.dirs_removed,
                             skipped |-> o.skipped, errors |-> o.errors])
    /\ files_removed' = files_removed + o.files_removed
    /\ dirs_removed' = dirs_removed + o.dirs_removed
    /\ skipped' = skipped + o.skipped
    /\ errors' = errors + o.errors

\* (variant: only "1" is recognised)
EnvFlag_only1(v) == v = "1"

\* os.getenv(name, "0") in ("1", "true", "yes", "on")
EnvFlag(v) == v \in {"1", "true", "yes", "on"}

\* (variant: the counters are not zeroed when the worker is called)
WorkerStart_keep ==
    /\ pc = "start"
    /\ dry' = EnvFlag(env_dry)
    /\ force' = EnvFlag(env_force)
    /\ log' = Append(log, Entry("info", "Planned removals", <<>>))
    /\ pc' = "files" /\ i' = 1
    /\ UNCHANGED <<fs, fs0, denied, files, dirs, env_dry, env_force, dirs_sorted, hist, summary,
                   files_removed, dirs_removed, skipped, errors, gvars, uvars>>

\* lines 206-217: the toggles are read, the counters zeroed, the plan logged
WorkerStart ==
    /\ pc = "start"
    /\ dry' = EnvFlag(env_dry)
    /\ force' = EnvFlag(env_force)
    /\ files_removed' = 0 /\ dirs_removed' = 0 /\ skipped' = 0 /\ errors' = 0
    /\ log' = Append(log, Entry("info", "Planned removals", <<>>))
    /\ pc' = "files" /\ i' = 1
    /\ UNCHANGED <<fs, fs0, denied, files, dirs, env_dry, env_force, dirs_sorted, hist, summary, gvars, uvars>>

FileStep ==
    /\ pc = "files" /\ i <= Len(files)
    /\ Apply("file", files[i], FileOutcome(fs, files[i], dry))
    /\ i' = i + 1
    /\ UNCHANGED <<fs0, denied, files, dirs, env_dry, env_force, dry, force, pc, dirs_sorted, summary, gvars, uvars>>

\* (variant: the directory loop can start before the file loop is over)
SortDirs_early ==
    /\ pc = "files"
    /\ dirs_sorted' = SortedByDepthDesc(dirs)
    /\ pc' = "dirs" /\ i' = 1
    /\ UNCHANGED <<fs, fs0, denied, files, dirs, env_dry, env_force, dry, force, files_removed,
                   dirs_removed, skipped, errors, log, hist, summary, gvars, uvars>>

\* line 248: the file loop is over, the directories are sorted
SortDirs ==
    /\ pc = "files" /\ i > Len(files)
    /\ dirs_sorted' = SortedByDepthDesc(dirs)
    /\ pc' = "dirs" /\ i' = 1
    /\ UNCHANGED <<fs, fs0, denied, files, dirs, env_dry, env_force, dry, force, files_removed,
                   dirs_removed, skipped, errors, log, hist, summary, gvars, uvars>>

DirStep ==
    /\ pc = "dirs" /\ i <= Len(dirs_sorted)
    /\ Apply("dir", dirs_sorted[i], DirOutcome(fs, dirs_sorted[i], dry, force))
    /\ i' = i + 1
    /\ UNCHANGED <<fs0, denied, files, dirs, env_dry, env_force, dry, force, pc, dirs_sorted, summary, gvars, uvars>>

\* lines 321-327
WorkerReturn ==
    /\ pc = "dirs" /\ i > Len(dirs_sorted)
    /\ summary' = [files_removed |-> files_removed, dirs_removed |-> dirs_removed,
                   skipped |-> skipped, errors |-> errors, dry_run |-> dry]
    /\ pc' = "done"
    /\ UNCHANGED <<fs, fs0, denied, files, dirs, env_dry, env_force, dry, force, i, dirs_sorted,
                   files_removed, dirs_removed, skipped, errors, log, hist, gvars, uvars>>

----------------------------------------------------------------------------
\* Package trees under STOW_DIR.  A tree is the set of its entries, each with
\* its path relative to the package root and its kind: "dir", "file",
\* "linkdir" (a link to a directory) or "link" (any other link).

PkgNames == {"vim", "zsh"}
Ent(rel, kind) == [rel |-> rel, kind |-> kind]
NoPkg == [kind |-> "none", tree |-> {}]
Pkg(tree) == [kind |-> "dir", tree |-> tree]

\* sorted(): the order of the path strings; the names used here hold no
\* character below "/", so the strings compare part by part
NameOrder == <<".git", "/", "d1", "d2", "h", "o", "r", "stow", "t", "vim", "x", "zsh">>
Rank(name) == CHOOSE k \in 1..Len(NameOrder) : NameOrder[k] = name

RECURSIVE PathLess(_, _)
PathLess(a, b) ==
    IF a = <<>> THEN b # <<>>
    ELSE IF b = <<>> THEN FALSE
    ELSE IF Head(a) = Head(b) THEN PathLess(Tail(a), Tail(b))
    ELSE Rank(Head(a)) < Rank(Head(b))

\* (variant: descending order)
RECURSIVE SortPaths_desc(_)
SortPaths_desc(S) ==
    IF S = {} THEN <<>>
    ELSE LET m == CHOOSE x \in S : \A y \in S : x = y \/ PathLess(y, x)
         IN  <<m>> \o SortPaths_desc(S \ {m})

RECURSIVE SortPaths(_)
SortPaths(S) ==
    IF S = {} THEN <<>>
    ELSE LET m == CHOOSE x \in S : \A y \in S : x = y \/ PathLess(x, y)
         IN  <<m>> \o SortPaths(S \ {m})

HasGit(rel) == \E k \in 1..Len(rel) : rel[k] = ".git"

\* the directories os.walk(pkg_dir, followlinks=False) visits once ".git" is
\* pruned from dnames: the root and every real directory not in a ".git"
WalkRoots(tree) ==
    {<<>>} \cup {e.rel : e \in {t \in tree : t.kind = "dir" /\ ~HasGit(t.rel)}}

Entries(tree, root) ==
    {e \in tree : Len(e.rel) = Len(root) + 1 /\ IsPrefix(root, e.rel)}

\* dnames holds the entries os.scandir reports as directories, links to
\* directories included; fnames holds the others
dnames(tree, root) ==
    {e \in Entries(tree, root) :
        e.kind \in {"dir", "linkdir"} /\ e.rel[Len(e.rel)] # ".git"}
fnames(tree, root) ==
    {e \in Entries(tree, root) : e.kind \in {"file", "link"}}

\* STOW_DIR (ROOT / "stow"), here a directory outside home
STOW_DIR == OUT \o <<"stow">>

\* (variant: the targets are built under the package directory and are not
\* passed through the guard)
enumerate_stow_targets_for_pkgs_in_stow(pkgs) ==
    LET live == {p \in pkgs : stow[p].kind = "dir"}
        roots(p) == WalkRoots(stow[p].tree)
        base(p) == Append(STOW_DIR, p)
        ds == UNION {{base(p) \o r : r \in roots(p) \ {<<>>}}
                       \cup UNION {{base(p) \o e.rel : e \in dnames(stow[p].tree, r)} : r \in roots(p)}
                     : p \in live}
        fls == UNION {UNION {{base(p) \o e.rel : e \in fnames(stow[p].tree, r)} : r \in roots(p)}
                      : p \in live}
    IN  [files |-> SortPaths(fls), dirs |-> SortPaths(ds)]

\* (variant: a directory becomes a target only when the walk finds a file
\* directly in it)
enumerate_stow_targets_for_pkgs_holders(pkgs) ==
    LET live == {p \in pkgs : stow[p].kind = "dir"}
        roots(p) == WalkRoots(stow[p].tree)
        ds == UNION {{HOME \o r : r \in {q \in roots(p) \ {<<>>} : fnames(stow[p].tree, q) # {}}}
                     : p \in live}
        fls == UNION {UNION {{HOME \o e.rel : e \in fnames(stow[p].tree, r)} : r \in roots(p)}
                      : p \in live}
    IN  [files |-> SortPaths({t \in fls : inside_home_guard(t)}),
         dirs |-> SortPaths({t \in ds : inside_home_guard(t)})]

\* set(pkgs) is the argument here; the packages are walked one by one and
\* their targets collected in two sets, sorted at the end
enumerate_stow_targets_for_pkgs(pkgs) ==
    LET live == {p \in pkgs : stow[p].kind = "dir"}
        roots(p) == WalkRoots(stow[p].tree)
        ds == UNION {{HOME \o r : r \in roots(p) \ {<<>>}}
                       \cup UNION {{HOME \o e.rel : e \in dnames(stow[p].tree, r)} : r \in roots(p)}
                     : p \in live}
        fls == UNION {UNION {{HOME \o e.rel : e \in fnames(stow[p].tree, r)} : r \in roots(p)}
                      : p \in live}
    IN  [files |-> SortPaths({t \in fls : inside_home_guard(t)}),
         dirs |-> SortPaths({t \in ds : inside_home_guard(t)})]

\* list_packages(): the sorted names of the directories of STOW_DIR
PkgOrder == <<"vim", "zsh">>
IsPkgDir(p) == stow[p].kind = "dir"
list_packages == SelectSeq(PkgOrder, IsPkgDir)

----------------------------------------------------------------------------
\* The states the worker can be dispatched in

\* a chain base, base/d2, base/d2/x holding the nodes kb, k2, kx
ChainFs(base, kb, k2, kx) ==
    [n \in Chain(base) |-> IF n = base THEN kb
                           ELSE IF Len(n) = Len(base) + 1 THEN k2 ELSE kx]

ChainShapes(base, KB, K2, KX) ==
    {ChainFs(base, kb, k2, kx) : <<kb, k2, kx>> \in
        {t \in KB \X K2 \X KX :
            /\ t[2].k # "none" => t[1].k = "dir"
            /\ t[3].k # "none" => t[2].k = "dir"}}

HomeShapes ==
    ChainShapes(D1, {NONE, DIR, LINK(OUT), LINK(INSIDE)},
                    {NONE, FILE, DIR, LINK(OUT), LINK(INSIDE)},
                    {NONE, FILE, DIR, LINK(OUT)})
InsideShapes == ChainShapes(INSIDE, {DIR}, {NONE, DIR}, {NONE})
OutShapes == ChainShapes(OUT, {DIR}, {DIR}, {NONE, FILE})

Filesystems ==
    {[n \in Nodes |-> IF n \in Chain(D1) THEN a[n]
                      ELSE IF n \in Chain(INSIDE) THEN b[n]
                      ELSE IF n \in Chain(OUT) THEN c[n] ELSE r] :
        <<a, b, c, r>> \in HomeShapes \X InsideShapes \X OutShapes \X {FILE}}

\* the targets a plan can name: str(home / rel) values, and paths outside home
\* (file targets are listed in the sorted order enumeration returns them in)
FileCands == <<D1 \o <<"d2", "x">>, RC, OUT \o <<"d2", "x">>>>
DirCands == {D1, D1 \o <<"d2">>, D1 \o <<"d2", "x">>, OUT \o <<"d2">>}

\* the sub-list of the sequence s holding the positions in I
RECURSIVE Pick(_, _, _)
Pick(s, I, k) ==
    IF k > Len(s) THEN <<>>
    ELSE (IF k \in I THEN <<s[k]>> ELSE <<>>) \o Pick(s, I, k + 1)

FileLists ==
    {Pick(FileCands, I, 1) : I \in {J \in SUBSET (1..Len(FileCands)) : Cardinality(J) <= MaxFiles}}

Injective(s) == \A a, b \in 1..Len(s) : s[a] = s[b] => a = b

DirLists ==
    UNION {{s \in [1..n -> DirCands] : Injective(s)} : n \in 0..MaxDirs}

\* values of the environment toggles: unset or "0", and truthy spellings
DryValues == {"0", "1", "yes"}
ForceValues == {"0", "1"}

\* no direct guard call is in progress
\* the three default directories theme_sources looks at (lines 355-359);
\* ROOT, the directory that holds stow, is OUT
DefaultDirs == <<OUT \o <<"themes">>,
                 OUT \o <<"assets", "themes">>,
                 OUT \o <<"stow", "omarchy", ".config", "omarchy", "themes">>>>

\* the names an entry of a source directory can have, in the order of
\* sorted(..., key=lambda p: p.name.lower())
ThemeFiles == <<".git", "a", "a.css", "a.txt", "b", "b.json">>

\* a source directory: "absent", "denied" (it cannot be listed) or "dir";
\* entries gives the kind of each name in it ("none", "dir", "file")
Source(state, entries) == [state |-> state, entries |-> entries]
NoEntries == [f \in Range(ThemeFiles) |-> "none"]
NoSource == Source("absent", NoEntries)

\* no theme function has been called, no source directory exists
ThemesIdle ==
    /\ sources = [k \in 1..Len(DefaultDirs) |-> NoSource]
    /\ dcalls = <<>>
    /\ selected_names = <<>>
    /\ themes = <<>>
    /\ ok = 0
    /\ env_themes_dry = "0" /\ env_themes_force = "0"
    /\ pcalls = <<>>

GuardIdle ==
    /\ cwd = HOME
    /\ gpath = <<>>
    /\ gres = "none"
    /\ ecalls = <<>>
    /\ ThemesIdle

\* the panes of a main that loaded four empty lists
Panes == 0..3
NoBulk == [key |-> "", pre |-> <<>>]
PaneIdle ==
    /\ current_pane = 0
    /\ filter_text = <<>>
    /\ pane_items = [p \in Panes |-> <<>>]
    /\ selected = [p \in Panes \ {0} |-> {}]
    /\ filtered = [p \in Panes |-> <<>>]
    /\ bulk = NoBulk

\* the main loop is at the top of an iteration and the screen shows the
\* log as it is
ViewIdle ==
    /\ loop = "top"
    /\ dirty = FALSE
    /\ recent = FALSE
    /\ painted = {}
    /\ PaneIdle

\* no thread was ever dispatched
DispatchIdle ==
    /\ ViewIdle
    /\ suppress = FALSE
    /\ job = "none" /\ stow_list = <<>> /\ sel0 = {}
    /\ calls = 0 /\ runs = 0 /\ nres = 0 /\ nshown = 0

\* the main loop right after start-up when STOW_DIR holds no package
MainIdle ==
    /\ stow = [p \in PkgNames |-> NoPkg]
    /\ selected_stow = {}
    /\ idx = 0
    /\ main_files = <<>> /\ main_dirs = <<>>
    /\ dialog = "closed" /\ typed = <<>> /\ confirm = "none" /\ keys = 0
    /\ is_running = FALSE
    /\ ui_events = <<>>
    /\ DispatchIdle

Init ==
    /\ fs \in Filesystems
    /\ fs0 = fs
    /\ denied = {}
    /\ files \in FileLists
    /\ dirs \in DirLists
    /\ env_dry \in DryValues
    /\ env_force \in ForceValues
    /\ dry = FALSE
    /\ force = FALSE
    /\ pc = "start"
    /\ i = 1
    /\ dirs_sorted = <<>>
    /\ files_removed = 0 /\ dirs_removed = 0 /\ skipped = 0 /\ errors = 0
    /\ log = <<>>
    /\ hist = <<>>
    /\ summary = [files_removed |-> 0, dirs_removed |-> 0, skipped |-> 0,
                  errors |-> 0, dry_run |-> FALSE]
    /\ GuardIdle
    /\ MainIdle

Next ==
    \/ WorkerStart
    \/ FileStep
    \/ SortDirs
    \/ DirStep
    \/ WorkerReturn

Spec == Init /\ [][Next]_vars

TypeOK ==
    /\ WellFormed(fs)
    /\ pc \in {"idle", "spawned", "stowsort", "stowrun", "start", "files", "dirs", "done",
               "raised", "finished"}

----------------------------------------------------------------------------
\* Properties of selective_cleanup_worker

Targets == Range(files) \cup Range(dirs)
Steps == 1..Len(hist)
DirSteps == {k \in Steps : hist[k].phase = "dir"}
Truthy == {"1", "true", "yes", "on"}
ModeNormal == env_dry \notin Truthy
ModeForce == env_force \in Truthy
DirAttempts == [k \in 1..Cardinality(DirSteps) |-> hist[Len(hist) - Cardinality(DirSteps) + k].path]
ProperAncestor(a, b) == IsPrefix(a, b) /\ a # b

\* C1 as stated: in a non-dry run a target whose location, with symbolic
\* links in its ancestors resolved, is outside home is counted as skipped with
\* a warning and the object it names still exists
C1_AsStated ==
    ModeNormal =>
      \A k \in Steps :
        (~IsPrefix(HOME, hist[k].loc) /\ NodeAt(hist[k].pre, hist[k].loc).k # "none")
          => /\ hist[k].skipped = 1 /\ hist[k].level = "warn"
             /\ NodeAt(fs, hist[k].loc).k # "none"

\* C1 amended: in a non-dry run a target whose path is lexically outside home
\* (its parts do not start with those of home; links are not resolved) is
\* counted as skipped with a warning and processing it changes nothing on
\* the filesystem
C1_LexicalGuardSkips ==
    ModeNormal =>
      \A k \in Steps :
        ~IsPrefix(HOME, hist[k].path)
          => /\ hist[k].skipped = 1 /\ hist[k].level = "warn"
             /\ hist[k].files_removed = 0 /\ hist[k].dirs_removed = 0 /\ hist[k].errors = 0
             /\ hist[k].post = hist[k].pre

C1_Witness ==
    /\ pc = "done" /\ ModeNormal
    /\ \E k \in Steps :
         /\ ~IsPrefix(HOME, hist[k].path)
         /\ NodeAt(hist[k].pre, hist[k].loc).k = "dir"
         /\ NodeAt(fs, hist[k].loc).k = "dir"
         /\ hist[k].skipped = 1

\* C2 as stated: with force, a directory target that is a link to a place
\* outside home gives errors + 1 and stays; one that is a link to a place
\* inside home is unlinked and gives files_removed + 1
C2_AsStated ==
    (ModeNormal /\ ModeForce) =>
      \A k \in DirSteps :
        LET e == hist[k]
            n == NodeAt(e.pre, e.loc)
        IN  (n.k = "link" /\ IsPrefix(HOME, e.path)) =>
              IF IsPrefix(HOME, n.to)
                THEN e.files_removed = 1 /\ e.post[e.loc].k = "none"
                ELSE e.errors = 1 /\ e.post = e.pre

\* C2 amended: with force, a directory target that is itself a symbolic link
\* is unlinked and gives files_removed + 1 wherever it points; nothing but
\* the link is removed
C2_SymlinkDirUnlinked ==
    (ModeNormal /\ ModeForce) =>
      \A k \in DirSteps :
        LET e == hist[k]
            n == NodeAt(e.pre, e.loc)
        IN  (n.k = "link" /\ IsPrefix(HOME, e.path)) =>
              /\ e.files_removed = 1 /\ e.dirs_removed = 0
              /\ e.skipped = 0 /\ e.errors = 0
              /\ e.post = [e.pre EXCEPT ![e.loc] = NONE]

C2_Witness ==
    /\ pc = "done" /\ ModeNormal /\ ModeForce
    /\ \E k \in DirSteps :
         /\ NodeAt(hist[k].pre, hist[k].loc) = LINK(OUT)
         /\ hist[k].files_removed = 1
         /\ NodeAt(fs, hist[k].loc).k = "none"
         /\ NodeAt(fs, OUT).k = "dir"

\* C3: with force, a directory is removed recursively only if the target is
\* not a link and its resolved path is under home; a real directory whose
\* resolved path is outside home is left alone and adds exactly one error
C3_RmtreeOnlyResolvedUnderHome ==
    (ModeNormal /\ ModeForce) =>
      \A k \in DirSteps :
        LET e == hist[k]
            n == NodeAt(e.pre, e.loc)
            under == IsPrefix(HOME, resolve(e.pre, e.path))
        IN  /\ (e.dirs_removed = 1 \/ (n.k = "dir" /\ e.post # e.pre))
                 => (n.k = "dir" /\ under)
            /\ (n.k = "dir" /\ IsPrefix(HOME, e.path) /\ ~under)
                 => /\ e.post = e.pre /\ e.errors = 1
                    /\ e.files_removed = 0 /\ e.dirs_removed = 0 /\ e.skipped = 0

C3_Witness ==
    /\ pc = "done" /\ ModeNormal /\ ModeForce
    /\ \E k \in DirSteps :
         /\ hist[k].msg = "refuse rmtree outside $HOME after resolve"
         /\ IsPrefix(HOME, hist[k].path)
         /\ NodeAt(fs, hist[k].loc).k = "dir"

Named == {LocOf(fs0, t).loc : t \in {u \in Targets : LocOf(fs0, u).ok}}

PlanMsgs == {"plan: unlink", "plan: unlink file/symlink for dir target",
             "plan: rmtree", "plan: rmdir (if empty)"}

\* C7: with the dry-run toggle set (force set or not) nothing is removed: the
\* filesystem stays as it was, files_removed = dirs_removed = 0, the summary
\* says dry_run, and every existing target under home has a plan entry
C7_DryRunNoOp ==
    (env_dry \in Truthy /\ pc # "start") =>
      /\ fs = fs0
      /\ files_removed = 0 /\ dirs_removed = 0
      /\ pc = "done" =>
           /\ summary.dry_run = TRUE
           /\ summary.files_removed = 0 /\ summary.dirs_removed = 0
           /\ \A t \in Targets :
                (IsPrefix(HOME, t) /\ Lstat(fs0, t).k # "none")
                  => \E k \in 1..Len(log) : log[k].path = t /\ log[k].msg \in PlanMsgs

C7_Witness ==
    /\ pc = "done" /\ env_dry = "yes" /\ env_force = "1"
    /\ \E k \in 1..Len(log) : log[k].msg = "plan: rmtree"
    /\ \E k \in 1..Len(log) : log[k].msg = "plan: unlink"
    /\ fs = fs0

\* C8: without force, a directory target that is not empty when it is
\* processed adds one to skipped and nothing to dirs_removed or errors, and
\* the directory and what it holds stay in place from then on
C8_NonEmptyDirSkipped ==
    (ModeNormal /\ ~ModeForce) =>
      \A k \in DirSteps :
        LET e == hist[k]
        IN  (NodeAt(e.pre, e.loc).k = "dir" /\ Children(e.pre, e.loc) # {}) =>
              /\ e.skipped = 1 /\ e.dirs_removed = 0 /\ e.errors = 0
              /\ e.files_removed = 0
              /\ \A n \in Descendants(e.loc) : fs[n] = e.pre[n]

C8_Witness ==
    /\ pc = "done" /\ ModeNormal /\ ~ModeForce
    /\ \E k \in DirSteps :
         /\ hist[k].msg = "skip dir not empty"
         /\ NodeAt(fs, hist[k].loc).k = "dir"
         /\ Children(fs, hist[k].loc) # {}
    /\ dirs_removed > 0

\* the fixture: package vim holds .vimrc (r) and .vim/colors/x.vim (d1/d2/x)
VimHome ==
    /\ fs0[RC] = FILE /\ fs0[D1] = DIR /\ fs0[D1 \o <<"d2">>] = DIR
    /\ fs0[D1 \o <<"d2", "x">>] = FILE
VimPlan ==
    /\ files = <<D1 \o <<"d2", "x">>, RC>>
    /\ Range(dirs) = {D1, D1 \o <<"d2">>} /\ Len(dirs) = 2

\* C9: with force, every real directory target that exists and resolves under
\* home is removed with all it holds and adds one to dirs_removed; for the
\* vim fixture the run removes the four targets and returns 2, 2, 0, 0, false
C9_ForceRemovesDirs ==
    (ModeNormal /\ ModeForce) =>
      /\ \A k \in DirSteps :
           LET e == hist[k]
           IN  (NodeAt(e.pre, e.loc).k = "dir" /\ IsPrefix(HOME, resolve(e.pre, e.path))) =>
                 /\ e.dirs_removed = 1 /\ e.errors = 0 /\ e.skipped = 0
                 /\ \A n \in Descendants(e.loc) : e.post[n].k = "none"
      /\ (VimHome /\ VimPlan /\ pc = "done") =>
           /\ summary = [files_removed |-> 2, dirs_removed |-> 2, skipped |-> 0,
                         errors |-> 0, dry_run |-> FALSE]
           /\ \A n \in Chain(D1) \cup {RC} : fs[n].k = "none"

C9_Witness ==
    /\ pc = "done" /\ ModeNormal /\ ModeForce /\ VimHome /\ VimPlan
    /\ dirs = <<D1, D1 \o <<"d2">>>>
    /\ summary.dirs_removed = 2 /\ summary.files_removed = 2

\* C10: whatever the order of the directory list, a directory target is
\* attempted before each of its proper ancestors in the list; the targets
\* d1, d1/d2, d1/d2/x are attempted as d1/d2/x, d1/d2, d1
C10_DeepestFirst ==
    /\ \A j, k \in DirSteps :
         ProperAncestor(hist[k].path, hist[j].path) => j < k
    /\ pc = "done" =>
         /\ Len(DirAttempts) = Len(dirs)
         /\ Range(DirAttempts) = Range(dirs)
         /\ Range(dirs) = Chain(D1) => DirAttempts = <<D1 \o <<"d2", "x">>, D1 \o <<"d2">>, D1>>

C10_Witness ==
    /\ pc = "done"
    /\ dirs = <<D1, D1 \o <<"d2">>, D1 \o <<"d2", "x">>>>
    /\ DirAttempts = <<D1 \o <<"d2", "x">>, D1 \o <<"d2">>, D1>>

----------------------------------------------------------------------------
\* inside_home_guard called on its own

\* the paths tried: tuples of parts, the anchor "/" only in front
GuardParts == {"/", "~", "h", "o", ".."}
GuardPaths ==
    UNION {{q \in [1..n -> GuardParts] : \A k \in 2..n : q[k] # "/"} : n \in 0..MaxGuardLen}

\* no worker thread exists
WorkerQuiet ==
    /\ files = <<>> /\ dirs = <<>>
    /\ dry = FALSE /\ force = FALSE
    /\ pc = "idle"
    /\ i = 1
    /\ dirs_sorted = <<>>
    /\ files_removed = 0 /\ dirs_removed = 0 /\ skipped = 0 /\ errors = 0
    /\ log = <<>>
    /\ hist = <<>>
    /\ summary = [files_removed |-> 0, dirs_removed |-> 0, skipped |-> 0,
                  errors |-> 0, dry_run |-> FALSE]

InitGuard ==
    /\ fs = [n \in Nodes |-> IF n \in {OUT, INSIDE} THEN DIR ELSE NONE]
    /\ fs0 = fs
    /\ denied = {}
    /\ env_dry = "0" /\ env_force = "0"
    /\ WorkerQuiet
    /\ MainIdle
    /\ cwd \in {HOME, OUT, <<>>}
    /\ gpath \in GuardPaths
    /\ gres = "none"
    /\ ecalls = <<>>
    /\ ThemesIdle

GuardCall ==
    /\ gres = "none"
    /\ gres' = IF inside_home_guard(gpath) THEN "True" ELSE "False"
    /\ UNCHANGED <<cwd, gpath, ecalls, tvars, svars, wvars, uvars>>

NextGuard == GuardCall

SpecGuard == InitGuard /\ [][NextGuard]_vars

\* the parts after home never climb above it
RECURSIVE StaysBelow(_, _)
StaysBelow(rest, depth) ==
    IF rest = <<>> THEN TRUE
    ELSE IF Head(rest) = ".."
      THEN depth > 0 /\ StaysBelow(Tail(rest), depth - 1)
    ELSE StaysBelow(Tail(rest), depth + 1)

\* the path, "~" expanded and made absolute, is home or below it and no ".."
\* of it climbs out of home
ConfinedToHome(c, path) ==
    LET e == IF path # <<>> /\ path[1] = "~" THEN HOME \o Tail(path) ELSE path
        a == IF e # <<>> /\ e[1] = "/" THEN e ELSE c \o e
    IN  /\ (e # <<>> /\ e[1] = "/") \/ c # <<>>
        /\ IsPrefix(HOME, a)
        /\ StaysBelow(SubSeq(a, Len(HOME) + 1, Len(a)), 0)

\* C5: inside_home_guard is true exactly for the paths that, expanded and
\* made absolute, lie in home with no traversal above home, and false when
\* the path cannot be resolved
C5_GuardRejectsTraversal ==
    gres # "none" => (gres = "True" <=> ConfinedToHome(cwd, gpath))

----------------------------------------------------------------------------
\* The main loop: selection in the stow pane, the D handler, the
\* confirmation dialog, run_async and the worker thread

\* int(): the value of a string of decimal digits
Digits == <<"0", "1", "2", "3", "4", "5", "6", "7", "8", "9">>
DigitVal(c) == (CHOOSE k \in 1..10 : Digits[k] = c) - 1

RECURSIVE int(_)
int(t) == IF Len(t) = 1 THEN DigitVal(t[1])
          ELSE 10 * int(SubSeq(t, 1, Len(t) - 1)) + DigitVal(t[Len(t)])

\* (variant: any count that is large enough confirms)
ConfirmAccepts_atleast(t, total) == t # <<>> /\ int(t) >= total

\* lines 177-183: Enter accepts iff int(typed) == total; int("") raises
ConfirmAccepts(t, total) == t # <<>> /\ int(t) = total

MaxTypedLen == 10
MaxEvents == 2
DialogDigits == {"0", "2", "3", "4", "5"}

Min(a, b) == IF a < b THEN a ELSE b
Max(a, b) == IF a > b THEN a ELSE b
Toast(is_error, title) == [kind |-> "toast", is_error |-> is_error, title |-> title]

MainReady == dialog = "closed"

\* curses.KEY_DOWN / "j"
KeyDown ==
    /\ MainReady /\ keys < MaxKeys
    /\ keys' = keys + 1
    /\ idx' = Min(Max(0, Len(list_packages) - 1), idx + 1)
    /\ idx' # idx
    /\ UNCHANGED <<stow, selected_stow, main_files, main_dirs, dialog, typed, confirm,
                   is_running, ui_events, suppress, stow_list, nres, nshown, dvars,
                   wvars, gvars>>

\* Space: the item under the cursor is toggled
KeySpace ==
    /\ MainReady /\ keys < MaxKeys
    /\ keys' = keys + 1
    /\ list_packages # <<>> /\ idx < Len(list_packages)
    /\ LET item == list_packages[idx + 1]
       IN  selected_stow' = IF item \in selected_stow
                              THEN selected_stow \ {item}
                              ELSE selected_stow \cup {item}
    /\ UNCHANGED <<stow, idx, main_files, main_dirs, dialog, typed, confirm,
                   is_running, ui_events, suppress, stow_list, nres, nshown, dvars,
                   wvars, gvars>>

\* "D" in the stow pane while nothing runs (lines 1335-1348): the targets
\* are enumerated and the dialog opens, or a toast is queued
KeyD ==
    /\ MainReady /\ ~is_running
    /\ IF selected_stow = {}
         THEN /\ Len(ui_events) < MaxEvents
              /\ ui_events' = Append(ui_events, Toast(FALSE, "No stow packages selected"))
              /\ UNCHANGED <<main_files, main_dirs, dialog, typed, confirm>>
         ELSE LET t == enumerate_stow_targets_for_pkgs(selected_stow)
              IN  /\ main_files' = t.files
                  /\ main_dirs' = t.dirs
                  /\ IF t.files \o t.dirs = <<>>
                       THEN /\ Len(ui_events) < MaxEvents
                            /\ ui_events' = Append(ui_events, Toast(FALSE, "Nothing to remove"))
                            /\ UNCHANGED <<dialog, typed, confirm>>
                       ELSE /\ dialog' = "open" /\ typed' = <<>> /\ confirm' = "none"
                            /\ UNCHANGED ui_events
    /\ UNCHANGED <<stow, selected_stow, idx, keys, is_running, suppress, stow_list, nres,
                   nshown, dvars, wvars, gvars>>

\* confirm_remove_dialog, a digit key (lines 187-189)
DialogDigit ==
    /\ dialog = "open" /\ keys < MaxKeys
    /\ \E c \in DialogDigits :
         typed' = IF Len(typed) < MaxTypedLen THEN Append(typed, c) ELSE typed
    /\ keys' = keys + 1
    /\ UNCHANGED <<stow, selected_stow, idx, main_files, main_dirs, dialog, confirm,
                   is_running, ui_events, suppress, stow_list, nres, nshown, dvars,
                   wvars, gvars>>

\* confirm_remove_dialog, Backspace (lines 184-186)
DialogBackspace ==
    /\ dialog = "open" /\ keys < MaxKeys
    /\ typed # <<>>
    /\ typed' = SubSeq(typed, 1, Len(typed) - 1)
    /\ keys' = keys + 1
    /\ UNCHANGED <<stow, selected_stow, idx, main_files, main_dirs, dialog, confirm,
                   is_running, ui_events, suppress, stow_list, nres, nshown, dvars,
                   wvars, gvars>>

\* the dialog returned False: line 1367
Cancelled ==
    /\ confirm' = "False"
    /\ log' = Append(log, Entry("info", "Selective cleanup cancelled", <<>>))
    /\ UNCHANGED <<is_running, pc, dvars>>

\* (variant: the refusal tests is_running instead of the thread)
run_async_flag(func) ==
    /\ calls' = calls + 1
    /\ IF is_running
         THEN /\ log' = Append(log, Entry("warn", "Operation already running", <<>>))
              /\ UNCHANGED <<is_running, pc, job, sel0, runs>>
         ELSE /\ log' = <<Entry("info", "Starting", <<>>)>>
              /\ is_running' = TRUE
              /\ pc' = "spawned"
              /\ job' = func /\ sel0' = selected_stow /\ runs' = runs + 1

\* run_async (lines 1038-1066): refused while the thread of an earlier
\* operation is alive, else the log is cleared and the thread that wraps
\* func is started
run_async(func) ==
    /\ calls' = calls + 1
    /\ IF pc # "idle"
         THEN /\ log' = Append(log, Entry("warn", "Operation already running", <<>>))
              /\ UNCHANGED <<is_running, pc, job, sel0, runs>>
         ELSE /\ log' = <<Entry("info", "Starting", <<>>)>>
              /\ is_running' = TRUE
              /\ pc' = "spawned"
              /\ job' = func /\ sel0' = selected_stow /\ runs' = runs + 1

\* confirm_remove_dialog, Esc (lines 175-176)
DialogEsc ==
    /\ dialog = "open" /\ keys < MaxKeys
    /\ Cancelled
    /\ dialog' = "closed"
    /\ keys' = keys + 1
    /\ UNCHANGED <<stow, selected_stow, idx, main_files, main_dirs, typed, ui_events, gvars,
                   suppress, stow_list, nres, nshown,
                   fs, fs0, denied, files, dirs, env_dry, env_force, dry, force, i, dirs_sorted,
                   files_removed, dirs_removed, skipped, errors, hist, summary>>

\* confirm_remove_dialog, Enter (lines 177-183), and what the D handler does
\* with the answer (lines 1348-1367)
DialogEnter ==
    /\ dialog = "open" /\ keys < MaxKeys
    /\ IF ConfirmAccepts(typed, Len(main_files \o main_dirs))
         THEN confirm' = "True" /\ run_async("cleanup")
         ELSE Cancelled
    /\ dialog' = "closed"
    /\ keys' = keys + 1
    /\ UNCHANGED <<stow, selected_stow, idx, main_files, main_dirs, typed, ui_events, gvars,
                   suppress, stow_list, nres, nshown,
                   fs, fs0, denied, files, dirs, env_dry, env_force, dry, force, i, dirs_sorted,
                   files_removed, dirs_removed, skipped, errors, hist, summary>>

\* the thread starts: wrapper calls do_cleanup, which reads files and dirs
ThreadCall ==
    /\ pc = "spawned" /\ job = "cleanup"
    /\ files' = main_files /\ dirs' = main_dirs
    /\ fs0' = fs /\ hist' = <<>>
    /\ pc' = "start"
    /\ UNCHANGED <<fs, denied, env_dry, env_force, dry, force, i, dirs_sorted, files_removed,
                   dirs_removed, skipped, errors, log, summary, gvars, uvars>>

\* sorted(selected_stow)
SortNames(S) ==
    LET In(p) == p \in S
    IN  SelectSeq(PkgOrder, In)

\* stow_selected in the thread, lines 1070-1080: an empty selection, stow not
\* installed or the stow directory missing end the function with a log line
StowCheck ==
    /\ pc = "spawned" /\ job = "stow"
    /\ \E usable \in BOOLEAN :
         IF selected_stow = {}
           THEN /\ log' = Append(log, Entry("warn", "No stow packages selected", <<>>))
                /\ pc' = "done"
         ELSE IF ~usable
           THEN /\ log' = Append(log, Entry("error", "stow cannot run", <<>>))
                /\ pc' = "done"
         ELSE /\ log' = log
              /\ pc' = "stowsort"
    /\ UNCHANGED <<fs, fs0, denied, files, dirs, env_dry, env_force, dry, force, i, dirs_sorted,
                   files_removed, dirs_removed, skipped, errors, hist, summary, gvars, uvars>>

\* stow_selected, lines 1083-1087: the selection is read and sorted
StowSort ==
    /\ pc = "stowsort"
    /\ stow_list' = SortNames(selected_stow)
    /\ log' = Append(log, Entry("info", "Stowing packages", <<>>))
    /\ pc' = "stowrun"
    /\ UNCHANGED <<stow, selected_stow, idx, main_files, main_dirs, dialog, typed, confirm,
                   keys, is_running, ui_events, suppress, nres, nshown, dvars, gvars,
                   fs, fs0, denied, files, dirs, env_dry, env_force, dry, force, i, dirs_sorted,
                   files_removed, dirs_removed, skipped, errors, hist, summary>>

\* (variant: stow_selected reports the exit code with a message of its own)
StowRun_toast ==
    /\ pc = "stowrun"
    /\ \E exit_code \in {0, 1} :
         /\ pc' = IF exit_code # 0 THEN "raised" ELSE "done"
         /\ ui_events' = IF exit_code # 0
                            THEN Append(ui_events, Toast(TRUE, "Stow failed"))
                            ELSE ui_events
    /\ UNCHANGED <<fs, fs0, denied, files, dirs, env_dry, env_force, dry, force, i, dirs_sorted,
                   files_removed, dirs_removed, skipped, errors, log, hist, summary, gvars,
                   stow, selected_stow, idx, main_files, main_dirs, dialog, typed, confirm,
                   keys, is_running, suppress, stow_list, nres, nshown, dvars>>

\* stow_selected, lines 1089-1094: stow runs; a nonzero exit code raises.
\* The links stow makes in home are outside the modelled tree
StowRun ==
    /\ pc = "stowrun"
    /\ \E exit_code \in {0, 1} :
         pc' = IF exit_code # 0 THEN "raised" ELSE "done"
    /\ UNCHANGED <<fs, fs0, denied, files, dirs, env_dry, env_force, dry, force, i, dirs_sorted,
                   files_removed, dirs_removed, skipped, errors, log, hist, summary, gvars,
                   uvars>>

\* the message the wrapper queues: the error toast when func raised, the
\* toast of after_cleanup, or the default one (lines 1052-1060, 1352-1363)
ResultToast ==
    IF pc = "raised" THEN Toast(TRUE, "Failed")
    ELSE IF job = "cleanup"
      THEN Toast(summary.errors > 0,
                 IF summary.errors = 0 THEN "Selective cleanup complete"
                 ELSE "Selective cleanup completed with issues")
    ELSE Toast(FALSE, "Complete")

ResultTitles == {"Failed", "Complete", "Selective cleanup complete",
                 "Selective cleanup completed with issues"}

\* (variant: nothing is queued when func raised)
WorkerFinish_silent ==
    /\ pc \in {"done", "raised"}
    /\ ui_events' = IF pc = "raised" THEN ui_events ELSE Append(ui_events, ResultToast)
    /\ nres' = IF pc = "raised" THEN nres ELSE nres + 1
    /\ log' = IF pc = "raised" THEN Append(log, Entry("error", "failed", <<>>)) ELSE log
    /\ is_running' = FALSE
    /\ pc' = "finished"
    /\ UNCHANGED <<stow, selected_stow, idx, main_files, main_dirs, dialog, typed, confirm,
                   keys, suppress, stow_list, nshown, dvars, gvars,
                   fs, fs0, denied, files, dirs, env_dry, env_force, dry, force, i,
                   dirs_sorted, files_removed, dirs_removed, skipped, errors, hist, summary>>

\* the wrapper after func (lines 1050-1063): the result message is queued,
\* a raised exception is logged, the finally clause resets is_running
WorkerFinish ==
    /\ pc \in {"done", "raised"}
    /\ ui_events' = Append(ui_events, ResultToast)
    /\ nres' = nres + 1
    /\ log' = IF pc = "raised" THEN Append(log, Entry("error", "failed", <<>>)) ELSE log
    /\ is_running' = FALSE
    /\ pc' = "finished"
    /\ UNCHANGED <<stow, selected_stow, idx, main_files, main_dirs, dialog, typed, confirm,
                   keys, suppress, stow_list, nshown, dvars, gvars,
                   fs, fs0, denied, files, dirs, env_dry, env_force, dry, force, i,
                   dirs_sorted, files_removed, dirs_removed, skipped, errors, hist, summary>>

\* the thread ends: action_thread.is_alive() is false from here on
ThreadExit ==
    /\ pc = "finished"
    /\ pc' = "idle"
    /\ UNCHANGED <<fs, fs0, denied, files, dirs, env_dry, env_force, dry, force, i, dirs_sorted,
                   files_removed, dirs_removed, skipped, errors, log, hist, summary,
                   gvars, uvars>>

\* the main loop takes one toast off the queue, shows it and clears the log
\* (lines 1151-1163)
DrainEvent ==
    /\ MainReady /\ loop = "top"
    /\ ui_events # <<>>
    /\ ui_events' = Tail(ui_events)
    /\ nshown' = IF Head(ui_events).title \in ResultTitles THEN nshown + 1 ELSE nshown
    /\ log' = <<>>
    /\ dirty' = TRUE
    /\ suppress' = TRUE
    /\ UNCHANGED <<stow, selected_stow, idx, main_files, main_dirs, dialog, typed, confirm,
                   keys, is_running, stow_list, nres, dvars, cwd, gpath, gres, ecalls, tvars,
                   loop, recent, painted, pvars,
                   fs, fs0, denied, files, dirs, env_dry, env_force, dry,
                   force, pc, i, dirs_sorted, files_removed, dirs_removed, skipped, errors,
                   hist, summary>>

\* Enter in the stow pane (lines 1239-1243): swallowed once after a toast,
\* ignored while is_running, else stow_selected is handed to run_async
KeyEnter ==
    /\ MainReady /\ keys < MaxKeys
    /\ keys' = keys + 1
    /\ IF suppress
         THEN /\ suppress' = FALSE
              /\ UNCHANGED <<log, is_running, pc, dvars>>
         ELSE /\ suppress' = suppress
              /\ IF ~is_running
                   THEN run_async("stow")
                   ELSE UNCHANGED <<log, is_running, pc, dvars>>
    /\ UNCHANGED <<stow, selected_stow, idx, main_files, main_dirs, dialog, typed, confirm,
                   ui_events, stow_list, nres, nshown, gvars,
                   fs, fs0, denied, files, dirs, env_dry, env_force, dry, force, i, dirs_sorted,
                   files_removed, dirs_removed, skipped, errors, hist, summary>>

\* the fixture: package vim holds r and d1/d2/x; package zsh holds d1/d2 and
\* a .git directory
VimTree == {Ent(<<"r">>, "file"), Ent(<<"d1">>, "dir"), Ent(<<"d1", "d2">>, "dir"),
            Ent(<<"d1", "d2", "x">>, "file")}
ZshTree == {Ent(<<"d1">>, "dir"), Ent(<<"d1", "d2">>, "dir"),
            Ent(<<"d1", ".git">>, "dir"), Ent(<<"d1", ".git", "x">>, "file")}

\* home holds the vim targets, as files and directories or as stow's links
MainFilesystems ==
    {f \in Filesystems :
        /\ f[D1].k = "dir" /\ f[D1 \o <<"d2">>].k = "dir"
        /\ f[D1 \o <<"d2", "x">>].k \in {"file", "link"}
        /\ f[INSIDE \o <<"d2">>].k = "none" /\ f[OUT \o <<"d2", "x">>].k = "none"}

InitMain ==
    /\ fs \in MainFilesystems
    /\ fs0 = fs
    /\ denied = {}
    /\ env_dry \in {"0", "1"} /\ env_force \in {"0", "1"}
    /\ WorkerQuiet
    /\ GuardIdle
    /\ stow = [p \in PkgNames |-> IF p = "vim" THEN Pkg(VimTree) ELSE Pkg(ZshTree)]
    /\ selected_stow = Range(list_packages)
    /\ idx = 0
    /\ main_files = <<>> /\ main_dirs = <<>>
    /\ dialog = "closed" /\ typed = <<>> /\ confirm = "none" /\ keys = 0
    /\ is_running = FALSE
    /\ ui_events = <<>>
    /\ DispatchIdle

NextMain ==
    \/ KeyDown
    \/ KeySpace
    \/ KeyD
    \/ DialogDigit
    \/ DialogBackspace
    \/ DialogEsc
    \/ DialogEnter
    \/ KeyEnter
    \/ StowCheck
    \/ StowSort
    \/ StowRun
    \/ ThreadCall
    \/ WorkerStart
    \/ FileStep
    \/ SortDirs
    \/ DirStep
    \/ WorkerReturn
    \/ WorkerFinish
    \/ ThreadExit
    \/ DrainEvent

SpecMain == InitMain /\ [][NextMain]_vars

----------------------------------------------------------------------------
\* Properties of the confirmation dialog

Total == Len(main_files) + Len(main_dirs)
DialogReturns == dialog = "open" /\ dialog' = "closed"
WorkerStarts == pc = "idle" /\ pc' # "idle" /\ job' = "cleanup"

\* str(n): the decimal text of a count, without leading zeros
RECURSIVE DecimalText(_)
DecimalText(n) ==
    IF n < 10 THEN <<Digits[n + 1]>>
    ELSE Append(DecimalText(n \div 10), Digits[(n % 10) + 1])

\* the number a digit string denotes: the sum of digit * 10^position
RECURSIVE Pow10(_)
Pow10(n) == IF n = 0 THEN 1 ELSE 10 * Pow10(n - 1)
RECURSIVE DigitSum(_, _)
DigitSum(t, k) ==
    IF k > Len(t) THEN 0
    ELSE DigitVal(t[k]) * Pow10(Len(t) - k) + DigitSum(t, k + 1)
Denotes(t, n) == t # <<>> /\ DigitSum(t, 1) = n

\* C6 as stated: the dialog returns true only if the typed text is the decimal
\* text of the total count; whenever it does not return true no worker is
\* started and the filesystem is untouched
C6_AsStated ==
    [][/\ DialogReturns =>
            /\ confirm' \in {"True", "False"}
            /\ confirm' = "True" => typed = DecimalText(Total)
            /\ confirm' = "False" => (pc' = pc /\ fs' = fs /\ is_running' = is_running)
       /\ WorkerStarts => (DialogReturns /\ confirm' = "True")
       /\ fs' # fs => pc \in {"files", "dirs"}]_vars

\* C6 amended: the dialog returns true only if the typed text is a string of
\* digits whose value is the total count (leading zeros are accepted);
\* whenever it does not return true no worker is started and the filesystem
\* is untouched
C6_ConfirmByValue ==
    [][/\ DialogReturns =>
            /\ confirm' \in {"True", "False"}
            /\ confirm' = "True" => Denotes(typed, Total)
            /\ confirm' = "False" => (pc' = pc /\ fs' = fs /\ is_running' = is_running)
       /\ WorkerStarts => (DialogReturns /\ confirm' = "True")
       /\ fs' # fs => pc \in {"files", "dirs"}]_vars

C6_Witness ==
    /\ confirm = "True" /\ typed = <<"0", "4">>
    /\ Total = 4
    /\ pc = "done"
    /\ fs # fs0

----------------------------------------------------------------------------
\* The worker when removals fail: home holds real files and directories, and
\* the OS refuses the removal of the locations in denied

FaultFilesystems ==
    {f \in Filesystems :
        /\ f[D1].k = "dir"
        /\ \A n \in Chain(D1) : f[n].k # "link"
        /\ f[INSIDE \o <<"d2">>].k = "none" /\ f[OUT \o <<"d2", "x">>].k = "none"}

FaultTargets == Chain(D1) \cup {RC}

InitFault ==
    /\ fs \in FaultFilesystems
    /\ fs0 = fs
    /\ denied \in SUBSET FaultTargets
    /\ files \in {l \in FileLists : Range(l) \subseteq FaultTargets}
    /\ dirs \in {l \in DirLists : Range(l) \subseteq FaultTargets}
    /\ env_dry \in {"0", "1"}
    /\ env_force \in {"0", "1"}
    /\ dry = FALSE /\ force = FALSE
    /\ pc = "start"
    /\ i = 1
    /\ dirs_sorted = <<>>
    /\ files_removed = 0 /\ dirs_removed = 0 /\ skipped = 0 /\ errors = 0
    /\ log = <<>>
    /\ hist = <<>>
    /\ summary = [files_removed |-> 0, dirs_removed |-> 0, skipped |-> 0,
                  errors |-> 0, dry_run |-> FALSE]
    /\ GuardIdle
    /\ MainIdle

SpecFault == InitFault /\ [][Next]_vars

\* the removal the code attempts for the target of a step, "none" when the
\* step ends before any removal
Attempt(e) ==
    LET n == Lstat(e.pre, e.path)
    IN  IF ~ModeNormal \/ ~IsPrefix(HOME, e.path) \/ n.k = "none" THEN "none"
        ELSE IF e.phase = "file" \/ n.k \in {"file", "link"} THEN "unlink"
        ELSE IF ~ModeForce THEN "rmdir"
        ELSE IF IsPrefix(HOME, resolve(e.pre, e.path)) THEN "rmtree" ELSE "none"

\* the attempted removal raised
Failed(e) ==
    \/ Attempt(e) = "unlink" /\ ~unlink(e.pre, e.path).ok
    \/ Attempt(e) = "rmdir" /\ ~rmdir(e.pre, e.path).ok
    \/ Attempt(e) = "rmtree" /\ ~rmtree(e.pre, e.path).ok

\* os.rmdir raised because the directory is not empty
NotEmptyRefusal(e) ==
    Attempt(e) = "rmdir" /\ rmdir(e.pre, e.path).err = "notempty"

CountsOneError(e) ==
    /\ e.errors = 1 /\ e.level = "error"
    /\ e.files_removed = 0 /\ e.dirs_removed = 0 /\ e.skipped = 0

\* every target is processed exactly once, the files in the order given and
\* the directories in some order, and the summary holds the counters
ProcessedOnceAndReturned ==
    /\ Len(hist) = Len(files) + Len(dirs)
    /\ [k \in 1..Len(files) |-> hist[k].path] = files
    /\ \A k \in Steps : hist[k].phase = (IF k <= Len(files) THEN "file" ELSE "dir")
    /\ Range(DirAttempts) = Range(dirs) /\ Injective(DirAttempts)
    /\ summary = [files_removed |-> files_removed, dirs_removed |-> dirs_removed,
                  skipped |-> skipped, errors |-> errors, dry_run |-> env_dry \in Truthy]

\* C11 as stated: every removal that fails adds exactly one to errors, every
\* target is processed exactly once and the worker returns its summary
C11_AsStated ==
    /\ \A k \in Steps : Failed(hist[k]) => CountsOneError(hist[k])
    /\ pc = "done" => ProcessedOnceAndReturned

\* C11 amended: whatever removals the OS refuses, every removal that fails
\* for another reason than a non-empty directory under os.rmdir adds exactly
\* one to errors and nothing to the other counters (the non-empty directory
\* adds one to skipped and nothing to errors); errors ends as the number of
\* such failures; every file and directory target is processed exactly once,
\* each iteration moving on to the next target, and the worker returns its
\* summary
C11_FailuresIsolated ==
    /\ \A k \in Steps :
         LET e == hist[k]
         IN  /\ (Failed(e) /\ ~NotEmptyRefusal(e)) => CountsOneError(e)
             /\ NotEmptyRefusal(e) => (e.skipped = 1 /\ e.errors = 0 /\ e.post = e.pre)
             /\ (e.errors = 1) => Failed(e)
    /\ errors = Cardinality({k \in Steps : Failed(hist[k]) /\ ~NotEmptyRefusal(hist[k])})
    /\ pc = "done" => ProcessedOnceAndReturned
    /\ pc = "files" => (i <= Len(files) + 1 /\ Len(hist) = i - 1)
    /\ pc = "dirs" => (i <= Len(dirs) + 1 /\ Len(hist) = Len(files) + i - 1)
    /\ pc \in {"start", "files", "dirs", "done"}

\* a refused unlink is followed by successful removals, and the run returns
C11_Witness ==
    /\ pc = "done" /\ ModeNormal
    /\ Len(hist) >= 3
    /\ hist[1].phase = "file" /\ hist[1].loc \in denied /\ hist[1].errors = 1
    /\ hist[2].files_removed = 1
    /\ \E k \in DirSteps : hist[k].errors = 1 /\ hist[k].loc \in denied
    /\ \E k \in DirSteps : hist[k].dirs_removed = 1
    /\ summary.errors = 2

----------------------------------------------------------------------------
\* enumerate_stow_targets_for_pkgs called on its own, over package trees

MaxPkgArgs == 2
MaxCalls == 2

\* a package path that is a regular file
FilePkg == [kind |-> "file", tree |-> {}]

\* the trees of a package: r, d1, d1/d2, d1/d2/x, d1/.git and d1/.git/x, each
\* absent or of one of the kinds its model allows
TreeOf(kr, k1, k2, kx, kg, kgx) ==
    {e \in {Ent(<<"r">>, kr), Ent(<<"d1">>, k1), Ent(<<"d1", "d2">>, k2),
             Ent(<<"d1", "d2", "x">>, kx), Ent(<<"d1", ".git">>, kg),
             Ent(<<"d1", ".git", "x">>, kgx)} : e.kind # "none"}

Trees ==
    {TreeOf(t[1], t[2], t[3], t[4], t[5], t[6]) : t \in
        {u \in {"none", "file", "dir"} \X {"none", "linkdir", "dir"}
                \X {"none", "linkdir", "dir"} \X {"none", "file", "link"}
                \X {"none", "file", "dir"} \X {"none", "file"} :
            /\ u[3] # "none" => u[2] = "dir"
            /\ u[4] # "none" => u[3] = "dir"
            /\ u[5] # "none" => u[2] = "dir"
            /\ u[6] # "none" => u[5] = "dir"}}

\* the second package: missing, a regular file, or one of three trees
SmallTrees ==
    {ZshTree, {Ent(<<"r">>, "dir")}, {Ent(<<"r">>, "file"), Ent(<<"d1">>, "file")}}

\* the argument lists: package names in any order, repeats allowed
PkgArgs == UNION {[1..n -> PkgNames] : n \in 0..MaxPkgArgs}

InitEnum ==
    /\ fs = [n \in Nodes |-> IF n \in {OUT, INSIDE} THEN DIR ELSE NONE]
    /\ fs0 = fs
    /\ denied = {}
    /\ env_dry = "0" /\ env_force = "0"
    /\ WorkerQuiet
    /\ GuardIdle
    /\ stow \in {[p \in PkgNames |-> IF p = "vim" THEN a ELSE b] :
                    <<a, b>> \in ({NoPkg} \cup {Pkg(t) : t \in Trees})
                                  \X ({NoPkg, FilePkg} \cup {Pkg(t) : t \in SmallTrees})}
    /\ selected_stow = Range(list_packages)
    /\ idx = 0
    /\ main_files = <<>> /\ main_dirs = <<>>
    /\ dialog = "closed" /\ typed = <<>> /\ confirm = "none" /\ keys = 0
    /\ is_running = FALSE
    /\ ui_events = <<>>
    /\ DispatchIdle

EnumCall ==
    /\ Len(ecalls) < MaxCalls
    /\ \E pkgs \in PkgArgs :
         LET t == enumerate_stow_targets_for_pkgs(Range(pkgs))
         IN  ecalls' = Append(ecalls, [pkgs |-> pkgs, files |-> t.files, dirs |-> t.dirs])
    /\ UNCHANGED <<cwd, gpath, gres, tvars, svars, wvars, uvars>>

NextEnum == EnumCall

SpecEnum == InitEnum /\ [][NextEnum]_vars

Calls == 1..Len(ecalls)

\* C12: every path in both lists returned by enumerate_stow_targets_for_pkgs
\* passes inside_home_guard (it is home or lies below it)
C12_TargetsInsideHome ==
    \A c \in Calls :
      \A t \in Range(ecalls[c].files) \cup Range(ecalls[c].dirs) :
        inside_home_guard(t) /\ IsPrefix(HOME, t)

C12_Witness ==
    \E c \in Calls :
      /\ Len(ecalls[c].files) >= 2 /\ Len(ecalls[c].dirs) >= 2
      /\ \A t \in Range(ecalls[c].files) \cup Range(ecalls[c].dirs) : inside_home_guard(t)

\* the selected packages that exist as directories
Live(pkgs) == {p \in Range(pkgs) : stow[p].kind = "dir"}

\* the entry lies inside a directory named .git
InsideGit(rel) == \E k \in 1..(Len(rel) - 1) : rel[k] = ".git"

\* <package>/<rel> maps to <home>/<rel>
ExpectedFiles(pkgs) ==
    UNION {{HOME \o e.rel : e \in {t \in stow[p].tree : t.kind # "dir" /\ ~InsideGit(t.rel)}}
           : p \in Live(pkgs)}
ExpectedDirs(pkgs) ==
    UNION {{HOME \o e.rel : e \in {t \in stow[p].tree : t.kind = "dir" /\ ~HasGit(t.rel)}}
           : p \in Live(pkgs)}

\* C13: files is exactly home/rel for every non-directory entry of a live
\* selected package outside .git directories, dirs is exactly home/rel for
\* every directory below such a package root that is neither .git nor inside
\* one; home itself is never a target; a missing or non-directory package
\* adds nothing; vim with r and d1/d2/x gives dirs d1, d1/d2 and files
\* d1/d2/x, r
C13_MirrorsStowMapping ==
    \A c \in Calls :
      LET e == ecalls[c]
      IN  /\ Range(e.files) = ExpectedFiles(e.pkgs)
          /\ Range(e.dirs) = ExpectedDirs(e.pkgs)
          /\ HOME \notin Range(e.files) \cup Range(e.dirs)
          /\ Live(e.pkgs) = {} => (e.files = <<>> /\ e.dirs = <<>>)
          /\ (e.pkgs = <<"vim">> /\ stow["vim"] = Pkg(VimTree)) =>
                /\ e.dirs = <<D1, D1 \o <<"d2">>>>
                /\ e.files = <<D1 \o <<"d2", "x">>, RC>>

\* strictly ascending: sorted and free of duplicates
Ascending(l) == \A a, b \in 1..Len(l) : a < b => PathLess(l[a], l[b])

\* C14: each returned list is in ascending order without duplicates, and two
\* calls with the same set of package names, in whatever order and with
\* whatever repeats, return identical lists
C14_EnumerationDeterministic ==
    \A c \in Calls :
      /\ Ascending(ecalls[c].files) /\ Ascending(ecalls[c].dirs)
      /\ \A d \in Calls :
           Range(ecalls[c].pkgs) = Range(ecalls[d].pkgs)
             => (ecalls[c].files = ecalls[d].files /\ ecalls[c].dirs = ecalls[d].dirs)

C14_Witness ==
    /\ Len(ecalls) = 2
    /\ ecalls[1].pkgs = <<"zsh", "vim">> /\ ecalls[2].pkgs = <<"vim", "zsh">>
    /\ stow["vim"] = Pkg(VimTree) /\ stow["zsh"] = Pkg(ZshTree)
    /\ ecalls[1].files = <<D1 \o <<"d2", "x">>, RC>>
    /\ ecalls[1].dirs = <<D1, D1 \o <<"d2">>>>
    /\ ecalls[2].files = ecalls[1].files /\ ecalls[2].dirs = ecalls[1].dirs

\* C15: no path is returned both as a file target and as a directory target
C15_FilesDirsDisjoint ==
    \A c \in Calls : Range(ecalls[c].files) \cap Range(ecalls[c].dirs) = {}

\* C16: every symbolic link met in a live selected package (outside .git
\* directories), a link to a directory included, is returned as a file target
\* and not as a directory target
C16_SymlinksAreFileTargets ==
    \A c \in Calls :
      \A p \in Live(ecalls[c].pkgs) :
        \A e \in {t \in stow[p].tree : t.kind \in {"link", "linkdir"} /\ ~InsideGit(t.rel)} :
          /\ HOME \o e.rel \in Range(ecalls[c].files)
          /\ HOME \o e.rel \notin Range(ecalls[c].dirs)

----------------------------------------------------------------------------
\* Properties of run_async and the worker threads

\* Thread.start()
ThreadStarts == pc' = "spawned" /\ pc # "spawned"

\* C17: a thread is started only by a run_async call that finds no thread
\* alive; a call that finds one alive starts nothing then and nothing later
\* (threads are only ever started in the step of an accepted call), and it
\* leaves the running thread and its data alone
C17_SingleWorker ==
    [][/\ ThreadStarts => (pc = "idle" /\ calls' = calls + 1 /\ runs' = runs + 1)
       /\ runs' # runs => (ThreadStarts /\ runs' = runs + 1)
       /\ (calls' # calls /\ pc # "idle") =>
             /\ UNCHANGED <<pc, job, runs, is_running, stow_list, files, dirs, ui_events>>
             /\ log' = Append(log, Entry("warn", "Operation already running", <<>>))
       /\ runs' <= calls']_vars

\* a second call was refused while the first thread was alive, that thread
\* has ended and nothing else was started
C17_Witness ==
    /\ calls = 2 /\ runs = 1
    /\ pc = "idle" /\ ~is_running
    /\ nres = 1
    /\ \E k \in 1..Len(log) : log[k].msg = "Operation already running"

\* C18: when confirm_remove_dialog returns true the cleanup thread is started
\* in that step, and it works on the lists enumerated before the dialog
C18_ConfirmedCleanupStarts ==
    [][/\ (DialogReturns /\ confirm' = "True") =>
             (pc' = "spawned" /\ job' = "cleanup" /\ runs' = runs + 1)
       /\ (pc = "spawned" /\ job = "cleanup" /\ pc' = "start") =>
             (files' = main_files /\ dirs' = main_dirs)
       /\ (DialogReturns \/ dialog = "open") => UNCHANGED <<main_files, main_dirs>>]_vars

\* C19: what a dispatched worker operates on is what was selected or
\* enumerated when its action key was handled
C19_SnapshotAtDispatch ==
    /\ pc = "stowrun" => stow_list = SortNames(sel0)
    /\ (job = "cleanup" /\ pc \in {"start", "files", "dirs"}) =>
          (files = main_files /\ dirs = main_dirs)

----------------------------------------------------------------------------
\* The main loop with its scheduling: every iteration of the loop starts by
\* taking the queued messages off the queue (the loop never ends here: no "q")

LiveFs ==
    [n \in Nodes |-> IF n \in {D1, D1 \o <<"d2">>, INSIDE, OUT, OUT \o <<"d2">>} THEN DIR
                      ELSE IF n \in {RC, D1 \o <<"d2", "x">>} THEN FILE ELSE NONE]

InitLive ==
    /\ fs = LiveFs
    /\ fs0 = fs
    /\ denied = {}
    /\ env_dry = "0" /\ env_force \in {"0", "1"}
    /\ WorkerQuiet
    /\ GuardIdle
    /\ stow = [p \in PkgNames |-> IF p = "vim" THEN Pkg(VimTree) ELSE Pkg(ZshTree)]
    /\ selected_stow = Range(list_packages)
    /\ idx = 0
    /\ main_files = <<>> /\ main_dirs = <<>>
    /\ dialog = "closed" /\ typed = <<>> /\ confirm = "none" /\ keys = 0
    /\ is_running = FALSE
    /\ ui_events = <<>>
    /\ DispatchIdle

SpecLive == InitLive /\ [][NextMain]_vars /\ WF_vars(DrainEvent)

\* between two runs every result is queued; during a run one is missing
ResultsMatchRuns ==
    /\ pc \in {"idle", "finished"} => (nres = runs /\ ~is_running)
    /\ pc \notin {"idle", "finished"} => nres = runs - 1
    /\ nshown <= nres
    /\ Cardinality({k \in 1..Len(ui_events) : ui_events[k].title \in ResultTitles})
         = nres - nshown

\* C20: every started run queues exactly one result message, whether the
\* wrapped function returned or raised, and is_running is false once the run
\* has ended; a queued result message is taken off the queue and shown as a
\* toast, unless the main loop stays blocked in the confirmation dialog for
\* ever
C20_OneResultPerRun ==
    /\ []ResultsMatchRuns
    /\ (nres > nshown) ~> (nres = nshown \/ [](dialog = "open"))

\* stow exited with an error: the run has ended with one message queued
C20_Witness ==
    /\ runs = 1 /\ nres = 1 /\ nshown = 0
    /\ pc = "idle" /\ ~is_running
    /\ ui_events = <<Toast(TRUE, "Failed")>>

----------------------------------------------------------------------------
\* What the worker thread touches

\* a step of the worker thread: its position moves
WorkerThreadStep == pc # "idle" /\ (pc' # pc \/ i' # i)

\* C21: a step of the worker thread shows no toast, reads no key and leaves
\* what the main loop draws from (cursor, selection, dialog, Enter
\* suppression) alone; outside the filesystem it only appends to the log,
\* puts one message on ui_events (in the wrapper, once per run) and resets
\* is_running
C21_WorkerIsHeadless ==
    [][WorkerThreadStep =>
         /\ UNCHANGED <<nshown, keys, dialog, typed, confirm, idx, suppress,
                        selected_stow, main_files, main_dirs, calls, runs>>
         /\ IsPrefix(log, log')
         /\ IF pc \in {"done", "raised"}
              THEN /\ Len(ui_events') = Len(ui_events) + 1
                   /\ IsPrefix(ui_events, ui_events')
                   /\ nres' = nres + 1
                   /\ is_running' = FALSE
              ELSE UNCHANGED <<ui_events, nres, is_running>>]_vars

\* a cleanup thread has removed something, logged it, queued its one message
\* and reset is_running, and no toast has been shown
C21_Witness ==
    /\ pc = "finished" /\ job = "cleanup"
    /\ fs # fs0
    /\ Len(log) > 1
    /\ Len(ui_events) = 1 /\ nres = 1 /\ nshown = 0
    /\ ~is_running

----------------------------------------------------------------------------
\* The log panel and the toasts

\* the toast of a finished operation is shown and dismissed
ResultToastDismissed == nshown' = nshown + 1

\* C22: when the result toast of an operation has been dismissed, every line
\* that was in the log panel while the toast was up is still there
C22_TrailSurvivesToast ==
    [][ResultToastDismissed =>
         \A k \in 1..Len(log) : \E j \in 1..Len(log') : log'[j] = log[k]]_vars

\* the stow function has ended after logging an error (stow cannot run), or
\* has raised (nonzero exit code)
StowFailed ==
    /\ job = "stow"
    /\ \/ pc = "raised"
       \/ pc = "done" /\ \E k \in 1..Len(log) : log[k].level = "error"

\* C23: the result message the wrapper queues for a stow run that failed is
\* an error toast, never a success toast
C23_StowFailureIsError ==
    [][(StowFailed /\ pc' = "finished") =>
         /\ ui_events' # <<>>
         /\ ui_events'[Len(ui_events')].is_error]_vars

----------------------------------------------------------------------------
\* Theme discovery (theme_sources, discover_themes)

\* Path.suffix and Path.stem of the entry names
suffix(name) ==
    CASE name = "a.css" -> ".css"
      [] name = "a.txt" -> ".txt"
      [] name = "b.json" -> ".json"
      [] OTHER -> ""
stem(name) ==
    CASE name = "a.css" -> "a"
      [] name = "a.txt" -> "a"
      [] name = "b.json" -> "b"
      [] OTHER -> name

exts == {".json", ".toml", ".ini", ".css"}

\* the source directory at a path
SourceAt(p) == sources[CHOOSE k \in 1..Len(DefaultDirs) : DefaultDirs[k] = p]

\* theme_sources() without the environment override: the default
\* directories that exist, in priority order
theme_sources ==
    LET Exists(p) == SourceAt(p).state # "absent"
    IN  SelectSeq(DefaultDirs, Exists)

\* sorted(src_dir.iterdir(), ...): the names of the entries present
iterdir(src_dir) ==
    LET Present(f) == SourceAt(src_dir).entries[f] # "none"
    IN  SelectSeq(ThemeFiles, Present)

\* the theme name an entry gives, "" when it gives none (lines 379-387)
ThemeName(src_dir, fname) ==
    LET kind == SourceAt(src_dir).entries[fname]
    IN  IF fname = ".git" THEN ""
        ELSE IF kind = "dir" THEN fname
        ELSE IF kind = "file" /\ suffix(fname) \in exts THEN stem(fname)
        ELSE ""

\* (variant: an entry replaces the one an earlier source gave)
AddEntry_replace(result, src_dir, fname) ==
    LET name == ThemeName(src_dir, fname)
    IN  IF name = "" THEN result
        ELSE (name :> Append(src_dir, fname)) @@ result

\* the body of the loop over the entries (lines 378-393): a name that is
\* already in result is left as it is
AddEntry(result, src_dir, fname) ==
    LET name == ThemeName(src_dir, fname)
    IN  IF name = "" \/ name \in DOMAIN result THEN result
        ELSE result @@ (name :> Append(src_dir, fname))

RECURSIVE ScanEntries(_, _, _)
ScanEntries(result, src_dir, entries) ==
    IF entries = <<>> THEN result
    ELSE ScanEntries(AddEntry(result, src_dir, Head(entries)), src_dir, Tail(entries))

\* the loop over the sources (lines 376-396): a source that cannot be listed
\* is skipped
RECURSIVE ScanSources(_, _)
ScanSources(result, srcs) ==
    IF srcs = <<>> THEN result
    ELSE LET src_dir == Head(srcs)
             next == IF SourceAt(src_dir).state = "denied" THEN result
                     ELSE ScanEntries(result, src_dir, iterdir(src_dir))
         IN  ScanSources(next, Tail(srcs))

discover_themes == ScanSources(<<>>, theme_sources)

\* what a source directory can hold
SourceShapes ==
    LET EntryKinds(f) ==
            CASE f = "a" -> {"none", "dir", "file"}
              [] f \in {".git", "b"} -> {"none", "dir"}
              [] OTHER -> {"none", "file"}
    IN  {Source("dir", e) : e \in {g \in [Range(ThemeFiles) -> {"none", "dir", "file"}] :
                                      \A f \in Range(ThemeFiles) : g[f] \in EntryKinds(f)}}

FullEntries == [f \in Range(ThemeFiles) |-> IF f \in {".git", "a", "b"} THEN "dir" ELSE "file"]

InitDiscover ==
    /\ fs = [n \in Nodes |-> IF n \in {OUT, INSIDE} THEN DIR ELSE NONE]
    /\ fs0 = fs
    /\ denied = {}
    /\ env_dry = "0" /\ env_force = "0"
    /\ WorkerQuiet
    /\ MainIdle
    /\ cwd = HOME /\ gpath = <<>> /\ gres = "none" /\ ecalls = <<>>
    /\ sources \in {[k \in 1..Len(DefaultDirs) |-> IF k = 1 THEN a ELSE IF k = 2 THEN b ELSE c] :
                      <<a, b, c>> \in
                        (SourceShapes \cup {NoSource, Source("denied", FullEntries)})
                        \X (SourceShapes \cup {NoSource, Source("denied", FullEntries)})
                        \X {NoSource, Source("dir", FullEntries)}}
    /\ dcalls = <<>>
    /\ selected_names = <<>>
    /\ themes = <<>>
    /\ ok = 0
    /\ env_themes_dry = "0" /\ env_themes_force = "0"
    /\ pcalls = <<>>

DiscoverCall ==
    /\ dcalls = <<>>
    /\ dcalls' = <<discover_themes>>
    /\ UNCHANGED <<sources, selected_names, themes, ok, env_themes_dry, env_themes_force,
                   pcalls, cwd, gpath, gres, ecalls, svars, wvars, uvars>>

SpecDiscover == InitDiscover /\ [][DiscoverCall]_vars

\* source k offers the theme name n through its entry f
OffersBy(k, n, f) ==
    /\ sources[k].state = "dir"
    /\ f # ".git"
    /\ \/ sources[k].entries[f] = "dir" /\ f = n
       \/ sources[k].entries[f] = "file" /\ suffix(f) \in exts /\ stem(f) = n
Offers(k, n) == \E f \in Range(ThemeFiles) : OffersBy(k, n, f)
ThemeNames == {"a", "b", "a.css", "a.txt", "b.json", ".git"}
Earliest(n) == CHOOSE k \in 1..Len(DefaultDirs) :
                  Offers(k, n) /\ \A j \in 1..(k - 1) : ~Offers(j, n)

\* C24: discover_themes maps exactly the names some source offers, each to
\* one path, and that path is an entry of the earliest source, in priority
\* order, that offers the name
C24_EarliestSourceWins ==
    \A c \in 1..Len(dcalls) :
        LET r == dcalls[c]
        IN  /\ DOMAIN r = {n \in ThemeNames : \E k \in 1..Len(DefaultDirs) : Offers(k, n)}
            /\ \A n \in DOMAIN r :
                 /\ Parent(r[n]) = DefaultDirs[Earliest(n)]
                 /\ OffersBy(Earliest(n), n, r[n][Len(r[n])])

\* the first source that offers "a" offers it as a file, a later one as a
\* directory: the name goes to the file of the first
C24_Witness ==
    /\ dcalls # <<>>
    /\ Offers(2, "a") /\ Offers(3, "a") /\ ~Offers(1, "a")
    /\ sources[1].state = "denied"
    /\ sources[2].entries["a"] = "none" /\ sources[3].entries["a"] = "dir"
    /\ dcalls[1]["a"] = Append(DefaultDirs[2], "a.css")

----------------------------------------------------------------------------
\* Theme copy (ensure_dest, _safe_remove_target, copy_theme,
\* copy_themes_worker).  The filesystem is here the region the copy writes
\* to: the destination root under home with the selected themes' targets,
\* and a directory outside home that links in the destination can point to.
\* What the source directories hold is in sources.

DEST == HOME \o <<".config", "omarchy", "themes">>

\* what the theme directory "a" holds in its source
ThemeTree == {Ent(<<"r">>, "file"), Ent(<<"d2">>, "dir"), Ent(<<"d2", "x">>, "file"),
              Ent(<<".git">>, "dir"), Ent(<<".git", "x">>, "file")}

TA == DEST \o <<"a">>
TB == DEST \o <<"b.json">>
TC == DEST \o <<"c">>
OD == OUT \o <<"d2">>
OX == OUT \o <<"x">>

ThemeNodes ==
    {Parent(Parent(DEST)), Parent(DEST), DEST, TC, OUT, OD, OD \o <<"r">>, OD \o <<"x">>, OX,
     TA, TA \o <<"r">>, TA \o <<"d2">>, TA \o <<"d2", "x">>, TA \o <<"old">>,
     TB, TB \o <<"b.json">>}

\* Path.mkdir(parents=True, exist_ok=True): the missing ancestors are made
\* first; an entry that is there is accepted when it is a directory (a link
\* to one included) and raises otherwise
RECURSIVE mkdir(_, _)
mkdir(f, p) ==
    LET w == LocOf(f, p)
        n == NodeAt(f, w.loc)
    IN  IF w.ok /\ n.k = "none"
          THEN IF w.loc \in DOMAIN f
                 THEN [ok |-> TRUE, fs |-> [f EXCEPT ![w.loc] = DIR], made |-> {w.loc}]
                 ELSE [ok |-> FALSE, fs |-> f, made |-> {}]
        ELSE IF w.ok
          THEN [ok |-> is_dir(f, p), fs |-> f, made |-> {}]
        ELSE IF n.k = "none" /\ Len(p) > 1
          THEN LET up == mkdir(f, Parent(p))
                   me == mkdir(up.fs, p)
               IN  IF ~up.ok THEN up
                   ELSE [ok |-> me.ok, fs |-> me.fs, made |-> up.made \cup me.made]
        ELSE [ok |-> FALSE, fs |-> f, made |-> {}]

\* ensure_dest (lines 398-407): the destination root is made, then resolved
ensure_dest(f) ==
    LET m == mkdir(f, DEST)
    IN  [ok |-> m.ok, fs |-> m.fs, dest |-> resolve(m.fs, DEST)]

\* shutil.copy2(src, dst): dst is opened for writing, links followed; a
\* dst that is a directory receives the file under the name of src
copy2(f, name, dst) ==
    LET to == IF is_dir(f, dst) THEN Append(dst, name) ELSE dst
        w == Walk(f, ROOTFS, Tail(to), TRUE, MaxSymlinks)
        n == NodeAt(f, w.loc)
    IN  IF ~w.ok \/ n.k \notin {"none", "file"} \/ w.loc \notin DOMAIN f
          THEN [ok |-> FALSE, fs |-> f, wrote |-> {}]
        ELSE [ok |-> TRUE, fs |-> [f EXCEPT ![w.loc] = FILE], wrote |-> {w.loc}]

\* (variant: a directory is removed through a link to it)
safe_remove_target_follow(f, target) ==
    IF is_file(f, target) /\ ~is_symlink(f, target) THEN unlink(f, target)
    ELSE IF exists(f, target) /\ is_dir(f, target)
      THEN rmtree(f, resolve(f, target))
    ELSE IF is_symlink(f, target) THEN unlink(f, target)
    ELSE [ok |-> TRUE, fs |-> f]

\* _safe_remove_target (lines 409-429): a link or a file is unlinked, a real
\* directory removed with what it holds; a failure raises
safe_remove_target(f, target) ==
    IF is_symlink(f, target) \/ is_file(f, target) THEN unlink(f, target)
    ELSE IF exists(f, target) /\ is_dir(f, target)
      THEN IF is_symlink(f, target) THEN unlink(f, target) ELSE rmtree(f, target)
    ELSE [ok |-> TRUE, fs |-> f]

\* the kind of a source path (src_resolved.is_dir(), .is_file())
SrcKind(src) == SourceAt(Parent(src)).entries[src[Len(src)]]

\* the steps of the merge copy of a directory (lines 472-482), in the
\* top-down order of os.walk: the directory is made, its files are copied
CopyOps(dst_target) ==
    LET roots == SortPaths(WalkRoots(ThemeTree))
        ops(root) == <<[op |-> "mkdir", to |-> dst_target \o root, name |-> ""]>>
                     \o [k \in 1..Len(SortPaths({e.rel : e \in fnames(ThemeTree, root)})) |->
                           LET rel == SortPaths({e.rel : e \in fnames(ThemeTree, root)})[k]
                           IN  [op |-> "copy2", to |-> dst_target \o rel, name |-> rel[Len(rel)]]]
        RECURSIVE all(_)
        all(k) == IF k > Len(roots) THEN <<>> ELSE ops(roots[k]) \o all(k + 1)
    IN  all(1)

\* the steps run one after the other; the first that raises ends the copy
RECURSIVE RunOps(_, _)
RunOps(st, ops) ==
    IF ops = <<>> \/ ~st.ok THEN st
    ELSE LET o == Head(ops)
             r == IF o.op = "mkdir"
                    THEN LET m == mkdir(st.fs, o.to)
                         IN  [ok |-> m.ok, fs |-> m.fs, wrote |-> m.made]
                    ELSE copy2(st.fs, o.name, o.to)
         IN  RunOps([ok |-> r.ok, fs |-> r.fs, wrote |-> st.wrote \cup r.wrote], Tail(ops))

\* the guard of copy_theme (lines 450-458)
TargetAllowed(f, dst_root, dst_target) ==
    LET dst_root_res == resolve(f, dst_root)
        dst_target_res == IF exists(f, dst_target) THEN resolve(f, dst_target) ELSE dst_target
    IN  is_relative_to(dst_target_res, dst_root_res)

\* copy_theme (lines 431-491); res is "ok" (True returned), "refused" or
\* "failed" (False returned) or "raised" (the forced removal failed);
\* touched holds the locations removed, made or written
copy_theme(f, src, dst_root, frc) ==
    LET kind == SrcKind(src)
        fname == src[Len(src)]
        dst_target == Append(dst_root, fname)
        \* lines 465-491: the copy, after the removal left the filesystem g
        Copy(g) ==
            IF kind = "file"
              THEN RunOps([ok |-> TRUE, fs |-> g, wrote |-> {}],
                          <<[op |-> "mkdir", to |-> dst_root, name |-> ""],
                            [op |-> "copy2", to |-> dst_target, name |-> fname]>>)
            ELSE IF kind = "dir"
              THEN RunOps([ok |-> TRUE, fs |-> g, wrote |-> {}], CopyOps(dst_target))
            ELSE [ok |-> FALSE, fs |-> g, wrote |-> {}]
        Result(wanted, rm, removed, cp) ==
            IF ~rm.ok
              THEN [res |-> "raised", fs |-> rm.fs, touched |-> removed,
                    target |-> dst_target, removal |-> wanted]
            ELSE [res |-> IF cp.ok THEN "ok" ELSE "failed", fs |-> cp.fs,
                  touched |-> removed \cup cp.wrote,
                  target |-> dst_target, removal |-> wanted]
        \* lines 460-463: with force, what is at the target is removed first
        Remove(wanted) ==
            IF wanted THEN safe_remove_target(f, dst_target) ELSE [ok |-> TRUE, fs |-> f]
        After(wanted, rm) ==
            Result(wanted, rm, {m \in DOMAIN f : f[m] # rm.fs[m]}, Copy(rm.fs))
        Forced(wanted) == After(wanted, Remove(wanted))
    IN  IF ~TargetAllowed(f, dst_root, dst_target)
          THEN [res |-> "refused", fs |-> f, touched |-> {}, target |-> dst_target,
                removal |-> FALSE]
        ELSE Forced(frc /\ (exists(f, dst_target) \/ is_symlink(f, dst_target)))

\* copy_themes_worker, lines 498-508: the toggles are read, the themes
\* discovered, the destination root made, the counters zeroed
ThemesStart ==
    /\ pc = "idle"
    /\ dry' = EnvFlag(env_themes_dry)
    /\ force' = EnvFlag(env_themes_force)
    /\ themes' = discover_themes
    /\ fs' = ensure_dest(fs).fs
    /\ ok' = 0 /\ skipped' = 0 /\ errors' = 0
    /\ log' = <<Entry("info", "Copying themes", ensure_dest(fs).dest)>>
    /\ hist' = <<>>
    /\ i' = 1
    /\ pc' = "themes"
    /\ UNCHANGED <<fs0, denied, files, dirs, env_dry, env_force, dirs_sorted, files_removed,
                   dirs_removed, summary, cwd, gpath, gres, ecalls, sources, dcalls,
                   selected_names, env_themes_dry, env_themes_force, pcalls, svars,
                   uvars>>

\* (variant: a refused theme is counted as skipped)
ThemeClass_refused(known, isdry, res) ==
    IF ~known \/ (~isdry /\ res = "refused") THEN "skipped"
    ELSE IF isdry THEN "plan"
    ELSE IF res = "ok" THEN "ok" ELSE "errors"

\* what one round of the loop does with a name (lines 510-528): "skipped"
\* and "plan" end the round before the copy; the copy that returns True is
\* counted in ok, the one that returns False or raises in errors
ThemeClass(known, isdry, res) ==
    IF ~known THEN "skipped"
    ELSE IF isdry THEN "plan"
    ELSE IF res = "ok" THEN "ok" ELSE "errors"

\* one round of the loop over selected_names (lines 509-528)
ThemeStep ==
    /\ pc = "themes" /\ i <= Len(selected_names)
    /\ LET name == selected_names[i]
           known == name \in DOMAIN themes
           \* the round, given what copy_theme does with the name (c) and how
           \* the round ends (class)
           Round(c, class) ==
               /\ fs' = IF class \in {"ok", "errors"} THEN c.fs ELSE fs
               /\ ok' = IF class = "ok" THEN ok + 1 ELSE ok
               /\ skipped' = IF class = "skipped" THEN skipped + 1 ELSE skipped
               /\ errors' = IF class = "errors" THEN errors + 1 ELSE errors
               /\ log' = Append(log,
                      IF class = "skipped"
                        THEN Entry("warn", "skip: source not found", <<name>>)
                      ELSE IF class = "plan" THEN Entry("info", "plan: copy", c.target)
                      ELSE IF class = "ok" THEN Entry("success", "copied theme", <<name>>)
                      ELSE Entry("error", c.res, <<name>>))
               /\ hist' = Append(hist,
                      [name |-> name, class |-> class, pre |-> fs,
                       post |-> IF class \in {"ok", "errors"} THEN c.fs ELSE fs,
                       res |-> IF class \in {"ok", "errors"} THEN c.res ELSE class,
                       touched |-> IF class \in {"ok", "errors"} THEN c.touched ELSE {},
                       target |-> c.target,
                       removal |-> IF class \in {"ok", "errors"} THEN c.removal ELSE FALSE])
           Copied(c) == Round(c, ThemeClass(known, dry, IF known /\ ~dry THEN c.res ELSE ""))
       IN  Copied(IF known THEN copy_theme(fs, themes[name], DEST, force)
                  ELSE [res |-> "", fs |-> fs, touched |-> {}, target |-> <<>>,
                        removal |-> FALSE])
    /\ i' = i + 1
    /\ UNCHANGED <<fs0, denied, files, dirs, env_dry, env_force, dry, force, pc, dirs_sorted,
                   files_removed, dirs_removed, summary, cwd, gpath, gres, ecalls, sources,
                   dcalls, selected_names, themes, env_themes_dry, env_themes_force, pcalls,
                   svars, uvars>>

\* line 530: the summary is returned
ThemesReturn ==
    /\ pc = "themes" /\ i > Len(selected_names)
    /\ summary' = [ok |-> ok, skipped |-> skipped, errors |-> errors, dry |-> dry]
    /\ pc' = "done"
    /\ UNCHANGED <<fs, fs0, denied, files, dirs, env_dry, env_force, dry, force, i, dirs_sorted,
                   files_removed, dirs_removed, skipped, errors, log, hist, gvars, uvars>>

\* the states the destination can be in: the root missing or there; a
\* target missing, a file, a directory or a link; links inside a target
DestShapes ==
    {[n \in ThemeNodes |->
        IF n = OUT THEN DIR
        ELSE IF n = OD THEN t.od
        ELSE IF n = OX THEN t.ox
        ELSE IF n = Parent(Parent(DEST)) THEN (IF t.root = "none" THEN NONE ELSE DIR)
        ELSE IF n \in {Parent(DEST), DEST} THEN (IF t.root = "all" THEN DIR ELSE NONE)
        ELSE IF t.root # "all" THEN NONE
        ELSE IF n = TC THEN DIR
        ELSE IF n = TA THEN t.a
        ELSE IF n = TB THEN t.b
        ELSE IF n = TA \o <<"r">> THEN t.r
        ELSE IF n = TA \o <<"d2">> THEN t.d2
        ELSE IF n = TA \o <<"d2", "x">> THEN t.x
        ELSE IF n = TA \o <<"old">> THEN t.old
        ELSE NONE] :
     t \in {u \in [root : {"none", "config", "all"},
                   a : {NONE, FILE, DIR, LINK(OD), LINK(TC), LINK(OX)},
                   r : {NONE, FILE, LINK(OX)},
                   d2 : {NONE, DIR, LINK(OD)},
                   x : {NONE, FILE},
                   old : {NONE, FILE},
                   b : {NONE, FILE, DIR, LINK(OX)},
                   od : {NONE, DIR},
                   ox : {NONE, FILE}] :
              /\ u.a.k # "dir" => (u.r = NONE /\ u.d2 = NONE /\ u.old = NONE)
              /\ u.d2.k # "dir" => u.x = NONE
              /\ u.root # "all" => (u.a = NONE /\ u.b = NONE /\ u.od = DIR /\ u.ox = NONE)}}

\* the worker is handed sorted(selected_themes), where a selected name may
\* have left the sources since the selection was made
InitThemes ==
    /\ fs \in DestShapes
    /\ fs0 = fs
    /\ denied \in {{}} \cup {{n} : n \in {m \in {TA \o <<"old">>} : fs[m].k = "file"}}
    /\ env_dry = "0" /\ env_force = "0"
    /\ WorkerQuiet
    /\ MainIdle
    /\ cwd = HOME /\ gpath = <<>> /\ gres = "none" /\ ecalls = <<>>
    /\ sources \in
         LET E(S) == [f \in Range(ThemeFiles) |->
                        IF f \in S THEN (IF f = "a" THEN "dir" ELSE "file") ELSE "none"]
         IN  {[k \in 1..Len(DefaultDirs) |->
                 IF k = 1 THEN Source("dir", E({"a", "b.json"})) ELSE NoSource],
              [k \in 1..Len(DefaultDirs) |->
                 IF k = 1 THEN Source("dir", E({"a"}))
                 ELSE IF k = 2 THEN Source("dir", E({"a", "b.json"})) ELSE NoSource]}
    /\ dcalls = <<>>
    /\ selected_names \in {<<>>, <<"a">>, <<"b", "zz">>, <<"a", "b", "zz">>}
    /\ themes = <<>>
    /\ ok = 0
    /\ env_themes_dry \in {"0", "1"} /\ env_themes_force \in {"0", "1"}
    /\ pcalls = <<>>

NextThemes ==
    \/ ThemesStart
    \/ ThemeStep
    \/ ThemesReturn

SpecThemes == InitThemes /\ [][NextThemes]_vars

----------------------------------------------------------------------------
\* Properties of the theme copy

ThemeSteps == 1..Len(hist)

\* the path leads, every link followed, to something outside the
\* destination root
LeadsOutside(f, p) == exists(f, p) /\ ~IsPrefix(resolve(f, DEST), resolve(f, p))

\* C25: every location a theme copy removes, makes or writes lies under the
\* destination root; a theme whose destination target leads outside the
\* root is refused with nothing touched and counted in errors, with and
\* without force
C25_WritesStayUnderDest ==
    \A k \in ThemeSteps :
        LET e == hist[k]
        IN  /\ \A loc \in e.touched : IsPrefix(DEST, loc)
            /\ (e.class \in {"ok", "errors"} /\ LeadsOutside(e.pre, e.target)) =>
                  (e.res = "refused" /\ e.touched = {} /\ e.post = e.pre /\ e.class = "errors")

\* a theme was copied with force onto a target that was there
ForcedOnto(e) ==
    /\ force /\ e.class \in {"ok", "errors"}
    /\ Lstat(e.pre, e.target).k # "none"

\* the target was removed, whatever it was, without touching anything that
\* is not under its own path, and the theme copied in its place
Replaced(e) ==
    /\ e.removal /\ e.res = "ok" /\ e.class = "ok"
    /\ \A m \in DOMAIN e.pre : ~IsPrefix(e.target, m) => e.post[m] = e.pre[m]
    /\ Lstat(e.post, e.target).k = SrcKind(themes[e.name])
    /\ \A m \in {TA \o <<"old">>, TB \o <<"b.json">>} : IsPrefix(e.target, m) => e.post[m] = NONE

\* C26 as stated: with force, every target that is there (a file, a link
\* whatever it points to, a real directory) is removed, the copy proceeds
\* and the theme is counted ok
C26_AsStated ==
    denied = {} => \A k \in ThemeSteps : ForcedOnto(hist[k]) => Replaced(hist[k])

\* C26: with force, a target that is there and passes the guard (a file, a
\* real directory, a link that dangles or leads under the destination root)
\* is removed without following it, and the theme is copied in its place and
\* counted ok; a link that leads outside the root is refused, left in place
\* and counted in errors
C26_ForceReplacesTarget ==
    denied = {} =>
      \A k \in ThemeSteps :
        LET e == hist[k]
        IN  ForcedOnto(e) =>
              IF LeadsOutside(e.pre, e.target)
                THEN e.res = "refused" /\ e.class = "errors" /\ e.post = e.pre
                ELSE Replaced(e)

\* a link to another directory of the destination root was replaced by the
\* theme directory, and that directory is still there
C26_Witness ==
    /\ force /\ pc = "done"
    /\ \E k \in ThemeSteps :
         /\ hist[k].name = "a"
         /\ hist[k].pre[TA] = LINK(TC)
         /\ hist[k].post[TA] = DIR /\ hist[k].post[TC] = DIR
         /\ hist[k].class = "ok"
    /\ \E k \in ThemeSteps :
         /\ hist[k].name = "b"
         /\ hist[k].pre[TB] = DIR
         /\ hist[k].post[TB] = FILE

PlanEntries == {k \in 1..Len(log) : log[k].msg = "plan: copy"}
Resolvable == {k \in 1..Len(selected_names) : selected_names[k] \in DOMAIN themes}

\* C27: with the dry-run toggle set the worker leaves the filesystem as it
\* found it, returns ok = 0 and errors = 0 with dry = true, and has logged
\* one plan entry per selected name that is in the discovered map
C27_DryRunCopiesNothing ==
    /\ (pc \in {"themes", "done"} /\ dry) => fs = fs0
    /\ (pc = "done" /\ dry) =>
          /\ summary.ok = 0 /\ summary.errors = 0 /\ summary.dry
          /\ Cardinality(PlanEntries) = Cardinality(Resolvable)

CountOf(cl) == Cardinality({k \in ThemeSteps : hist[k].class = cl})

\* C28: without dry run, the names are processed one by one in the order
\* given, each once; a name that is not in the discovered map is counted in
\* skipped, a copy that was refused, failed or raised in errors, a copy that
\* succeeded in ok, and nothing else is counted; the loop goes on after
\* every outcome, and the three counters returned add up to the number of
\* selected names
C28_EachNameCountedOnce ==
    (pc \in {"themes", "done"} /\ ~dry) =>
      /\ Len(hist) = i - 1 /\ i <= Len(selected_names) + 1
      /\ \A k \in ThemeSteps :
           LET e == hist[k]
           IN  /\ e.name = selected_names[k]
               /\ e.class \in {"skipped", "errors", "ok"}
               /\ e.class = "skipped" <=> e.name \notin DOMAIN themes
               /\ e.class = "errors" <=> e.res \in {"refused", "failed", "raised"}
               /\ e.class = "ok" <=> e.res = "ok"
               /\ e.class = "skipped" => e.post = e.pre
      /\ ok = CountOf("ok") /\ skipped = CountOf("skipped") /\ errors = CountOf("errors")
      /\ ok + skipped + errors = Len(hist)
      /\ pc = "done" =>
           /\ Len(hist) = Len(selected_names)
           /\ summary = [ok |-> ok, skipped |-> skipped, errors |-> errors, dry |-> FALSE]
           /\ summary.ok + summary.skipped + summary.errors = Len(selected_names)

\* the forced removal of the first theme failed, the second theme was
\* copied, the third name was not found
C28_Witness ==
    /\ pc = "done" /\ ~dry /\ force
    /\ selected_names = <<"a", "b", "zz">>
    /\ hist[1].res = "raised" /\ hist[1].removal
    /\ hist[2].class = "ok"
    /\ hist[3].class = "skipped"
    /\ summary = [ok |-> 1, skipped |-> 1, errors |-> 1, dry |-> FALSE]

----------------------------------------------------------------------------
\* package_plan (src/tui/ops.py)

MaxPlanLen == 2

\* a value of the configuration: a list, a dict with the keys common and
\* arch (each a list, or None or missing), or anything else
\* (items for a list; common, arch and the keys that are None or missing
\* for a dict)
Section(shape, items, common, arch, none) ==
    [shape |-> shape, items |-> items, common |-> common, arch |-> arch, none |-> none]

\* cfg: has says whether the key "packages" is there
Cfg(has, section) == [has |-> has, packages |-> section]

\* the loop of lines 136-140: a package that was seen is not added again
RECURSIVE Dedup(_, _, _)
Dedup(todo, seen, out) ==
    IF todo = <<>> THEN out
    ELSE LET p == Head(todo)
         IN  IF p \in seen THEN Dedup(Tail(todo), seen, out)
             ELSE Dedup(Tail(todo), seen \cup {p}, Append(out, p))

\* package_plan (lines 117-142)
package_plan(cfg) ==
    LET section == IF cfg.has THEN cfg.packages ELSE Section("list", <<>>, <<>>, <<>>, {})
        common == IF "common" \in section.none THEN <<>> ELSE section.common
        arch_specific == IF "arch" \in section.none THEN <<>> ELSE section.arch
    IN  IF section.shape = "list" THEN section.items
        ELSE IF section.shape = "dict" THEN Dedup(common \o arch_specific, {}, <<>>)
        ELSE <<>>

PlanLists == UNION {[1..n -> {"p", "q", "r"}] : n \in 0..MaxPlanLen}

Configs ==
    {Cfg(h, Section("other", <<>>, <<>>, <<>>, {})) : h \in BOOLEAN}
    \cup {Cfg(TRUE, Section("list", l, <<>>, <<>>, {})) : l \in PlanLists}
    \cup {Cfg(TRUE, Section("dict", <<>>, c, a, {})) : c \in PlanLists, a \in PlanLists}
    \cup {Cfg(TRUE, Section("dict", <<>>, <<>>, a, {"common"})) : a \in PlanLists}
    \cup {Cfg(TRUE, Section("dict", <<>>, c, <<>>, {"arch"})) : c \in PlanLists}

InitPlan ==
    /\ fs = [n \in Nodes |-> IF n \in {OUT, INSIDE} THEN DIR ELSE NONE]
    /\ fs0 = fs
    /\ denied = {}
    /\ env_dry = "0" /\ env_force = "0"
    /\ WorkerQuiet
    /\ MainIdle
    /\ GuardIdle

PlanCall ==
    /\ pcalls = <<>>
    /\ \E cfg \in Configs : pcalls' = <<[cfg |-> cfg, plan |-> package_plan(cfg)]>>
    /\ UNCHANGED <<sources, dcalls, selected_names, themes, ok, env_themes_dry,
                   env_themes_force, cwd, gpath, gres, ecalls, svars, wvars, uvars>>

SpecPlan == InitPlan /\ [][PlanCall]_vars

\* the packages a section names, common first
Named29(section) ==
    IF section.shape = "list" THEN section.items
    ELSE IF section.shape = "dict"
      THEN (IF "common" \in section.none THEN <<>> ELSE section.common)
           \o (IF "arch" \in section.none THEN <<>> ELSE section.arch)
    ELSE <<>>

FirstAt(l, p) == CHOOSE k \in 1..Len(l) : l[k] = p /\ \A j \in 1..(k - 1) : l[j] # p

\* C29: for a list and for a dict alike, the plan holds each package the
\* section names exactly once, in the order of the first occurrences, the
\* packages of common before those of arch
C29_PlanFlatNoDuplicates ==
    \A c \in 1..Len(pcalls) :
        LET cfg == pcalls[c].cfg
            plan == pcalls[c].plan
            named == IF cfg.has THEN Named29(cfg.packages) ELSE <<>>
        IN  /\ Range(plan) = Range(named)
            /\ Injective(plan)
            /\ \A a, b \in 1..Len(plan) :
                 a < b => FirstAt(named, plan[a]) < FirstAt(named, plan[b])

----------------------------------------------------------------------------
\* The order of the two loops of selective_cleanup_worker

FileSteps == {k \in Steps : hist[k].phase = "file"}

\* C30: when a directory target is processed every file target has been
\* processed: the steps on the file targets, one per target in the order
\* given, all come before the first step on a directory target
C30_FilesBeforeDirs ==
    /\ \A k \in DirSteps :
         /\ k > Len(files)
         /\ \A j \in 1..Len(files) : hist[j].phase = "file" /\ hist[j].path = files[j]
    /\ \A j \in FileSteps : \A k \in DirSteps : j < k
    /\ pc \in {"start", "files"} => DirSteps = {}
    /\ pc \in {"dirs", "done"} => Cardinality(FileSteps) = Len(files)

\* a run without dry run that removed a file target and then a directory
\* target
C30_Witness ==
    /\ pc = "done" /\ ~dry
    /\ Len(files) = 2 /\ Len(dirs) >= 1
    /\ files_removed >= 1 /\ dirs_removed >= 1
    /\ hist[Len(files)].phase = "file" /\ hist[Len(files) + 1].phase = "dir"

----------------------------------------------------------------------------
\* The worker on a plan that went stale: what is at a directory target may
\* by now be a file or a link, and the OS may refuse one removal

InitDrift ==
    /\ fs \in Filesystems
    /\ fs0 = fs
    /\ denied \in {{}} \cup {{n} : n \in Chain(D1) \cup {RC, OUT \o <<"d2", "x">>}}
    /\ files \in {<<>>, <<RC>>}
    /\ dirs \in DirLists
    /\ env_dry \in {"0", "1"}
    /\ env_force \in {"0", "1"}
    /\ dry = FALSE /\ force = FALSE
    /\ pc = "start"
    /\ i = 1
    /\ dirs_sorted = <<>>
    /\ files_removed = 0 /\ dirs_removed = 0 /\ skipped = 0 /\ errors = 0
    /\ log = <<>>
    /\ hist = <<>>
    /\ summary = [files_removed |-> 0, dirs_removed |-> 0, skipped |-> 0,
                  errors |-> 0, dry_run |-> FALSE]
    /\ GuardIdle
    /\ MainIdle

SpecDrift == InitDrift /\ [][Next]_vars

\* C31: a directory target under home that is a regular file or a link when
\* it is processed goes the way of a file target, with force or without:
\* in a dry run it gets the plan entry of an unlink and nothing changes;
\* otherwise the file or the link itself is removed, not what a link leads
\* to, and files_removed gets one more, or, when the OS refuses, nothing
\* changes and errors gets one more; nothing else is removed and
\* dirs_removed and skipped stay as they are
C31_DriftedDirTargetUnlinked ==
    \A k \in DirSteps :
      LET e == hist[k]
          n == Lstat(e.pre, e.path)
      IN  (IsPrefix(HOME, e.path) /\ n.k \in {"file", "link"}) =>
            /\ e.dirs_removed = 0 /\ e.skipped = 0
            /\ \A m \in Nodes \ {e.loc} : e.post[m] = e.pre[m]
            /\ IF ~ModeNormal
                 THEN /\ e.post = e.pre
                      /\ e.msg = "plan: unlink file/symlink for dir target"
                      /\ e.files_removed = 0 /\ e.errors = 0
               ELSE IF e.loc \notin denied
                 THEN /\ e.post = [e.pre EXCEPT ![e.loc] = NONE]
                      /\ e.files_removed = 1 /\ e.errors = 0
               ELSE /\ e.post = e.pre
                    /\ e.files_removed = 0 /\ e.errors = 1

\* with force, a directory target that is by now a file could not be
\* removed, and one that is by now a link to a directory outside home was
\* unlinked while the directory stayed
C31_Witness ==
    /\ pc = "done" /\ ModeNormal /\ ModeForce
    /\ \E j, k \in DirSteps :
         /\ Lstat(hist[j].pre, hist[j].path).k = "file"
         /\ hist[j].errors = 1 /\ hist[j].loc \in denied
         /\ Lstat(hist[k].pre, hist[k].path) = LINK(OUT)
         /\ hist[k].files_removed = 1
         /\ NodeAt(fs, hist[k].loc).k = "none"
    /\ fs[OUT].k = "dir" /\ fs[OUT \o <<"d2">>].k = "dir"

\* what one step added to the four counters
Counted(e) == e.files_removed + e.dirs_removed + e.skipped + e.errors

\* C33: in a run that is not a dry run every target adds one to exactly one
\* of the four counters, and the counters of the summary add up to
\* len(files) + len(dirs); in a dry run files_removed and dirs_removed stay
\* 0, a target adds at most one, and the sum is at most that total
C33_CountersPartitionTargets ==
    /\ \A k \in Steps :
         LET e == hist[k]
         IN  /\ {e.files_removed, e.dirs_removed, e.skipped, e.errors} \subseteq {0, 1}
             /\ IF ModeNormal THEN Counted(e) = 1
                ELSE e.files_removed = 0 /\ e.dirs_removed = 0 /\ Counted(e) <= 1
    /\ files_removed + dirs_removed + skipped + errors = Len(hist)
          - Cardinality({k \in Steps : Counted(hist[k]) = 0})
    /\ pc = "done" =>
         LET total == summary.files_removed + summary.dirs_removed
                        + summary.skipped + summary.errors
         IN  /\ Len(hist) = Len(files) + Len(dirs)
             /\ summary.dry_run = ~ModeNormal
             /\ IF ModeNormal THEN total = Len(files) + Len(dirs)
                ELSE /\ summary.files_removed = 0 /\ summary.dirs_removed = 0
                     /\ total <= Len(files) + Len(dirs)

\* a run on four targets that ends with one in each counter
C33_Witness ==
    /\ pc = "done" /\ ModeNormal
    /\ Len(files) + Len(dirs) = 4
    /\ summary.files_removed = 1 /\ summary.dirs_removed = 1
    /\ summary.skipped = 1 /\ summary.errors = 1
    /\ \E k \in Steps : hist[k].errors = 1 /\ hist[k].loc \in denied

----------------------------------------------------------------------------
\* The log panel while a thread logs.  LogBuf.add is taken in its two steps
\* (the line is appended, then dirty is set), one iteration of the main loop
\* in its steps (the queue is drained, a key is awaited, the redraw decided,
\* the log is painted, dirty is reset), so that the two threads interleave
\* as they can.  The help overlay stays closed.

MaxLines == 2

\* the k-th line the function of the thread logs
Line(k) == Entry("info", "line", <<"line">> \o [j \in 1..k |-> "+"])

\* what run_async leaves behind (lines 1044-1065): the log holds the
\* "Starting" line, draw() has painted it, the thread runs
Starting == Entry("info", "Starting", <<>>)

\* LogBuf.add, line 566: self.lines.append
LogAppend ==
    /\ pc = "logging" /\ i <= MaxLines
    /\ log' = Append(log, Line(i))
    /\ i' = i + 1
    /\ pc' = "adding"
    /\ UNCHANGED <<fs, fs0, denied, files, dirs, env_dry, env_force, dry, force, dirs_sorted,
                   files_removed, dirs_removed, skipped, errors, hist, summary, gvars, uvars>>

\* LogBuf.add, line 571: self.dirty = True
LogMark ==
    /\ pc = "adding"
    /\ dirty' = TRUE
    /\ pc' = "logging"
    /\ UNCHANGED <<wvars_but_pc, cwd, gpath, gres, ecalls, tvars, loop, recent, painted, pvars, uvars>>

\* the function of the thread returns
FuncReturn ==
    /\ pc = "logging"
    /\ pc' = "done"
    /\ UNCHANGED <<wvars_but_pc, gvars, uvars>>

\* lines 1152-1165: the queue is empty, the loop waits in getch
LoopGetch ==
    /\ MainReady /\ loop = "top"
    /\ ui_events = <<>>
    /\ loop' = "getch"
    /\ UNCHANGED <<wvars, cwd, gpath, gres, ecalls, tvars, dirty, recent, painted, pvars, uvars>>

\* lines 1165 and 1369-1395: getch returns a key (one that leaves the log
\* alone) or times out after 100 ms, the spinner frame may have changed
\* while a thread runs, and the redraw is decided; a redraw for the log
\* alone is put off while the last one is less than LOG_REDRAW_INTERVAL
\* (0.15 s) ago, which a second timeout in a row rules out
LoopTick ==
    /\ loop = "getch"
    /\ \E user_input \in BOOLEAN, spinner_frame_changed \in BOOLEAN, early \in BOOLEAN :
         LET log_update == dirty
             need_draw == user_input \/ log_update \/ spinner_frame_changed
             only_log == ~user_input /\ log_update /\ ~spinner_frame_changed
             throttled == only_log /\ recent /\ early
         IN  /\ spinner_frame_changed => is_running
             /\ early => (recent /\ only_log)
             /\ loop' = IF need_draw /\ ~throttled THEN "draw" ELSE "top"
             /\ recent' = IF user_input THEN recent ELSE (only_log /\ ~throttled)
    /\ UNCHANGED <<wvars, cwd, gpath, gres, ecalls, tvars, dirty, painted, pvars, uvars>>

\* draw, lines 953-975: the log pane is painted from log.lines
DrawPaint ==
    /\ loop = "draw"
    /\ painted' = painted \cup Range(log)
    /\ loop' = "drawn"
    /\ UNCHANGED <<wvars, cwd, gpath, gres, ecalls, tvars, dirty, recent, pvars, uvars>>

\* draw, line 1036: log.dirty = False
DrawDone ==
    /\ loop = "drawn"
    /\ dirty' = FALSE
    /\ loop' = "top"
    /\ UNCHANGED <<wvars, cwd, gpath, gres, ecalls, tvars, recent, painted, pvars, uvars>>

InitLog ==
    /\ fs = LiveFs
    /\ fs0 = fs
    /\ denied = {}
    /\ files = <<>> /\ dirs = <<>>
    /\ env_dry = "0" /\ env_force = "0"
    /\ dry = FALSE /\ force = FALSE
    /\ pc = "logging"
    /\ i = 1
    /\ dirs_sorted = <<>>
    /\ files_removed = 0 /\ dirs_removed = 0 /\ skipped = 0 /\ errors = 0
    /\ log = <<Starting>>
    /\ hist = <<>>
    /\ summary = [files_removed |-> 0, dirs_removed |-> 0, skipped |-> 0,
                  errors |-> 0, dry_run |-> FALSE]
    /\ GuardIdle
    /\ stow = [p \in PkgNames |-> NoPkg]
    /\ selected_stow = {}
    /\ idx = 0
    /\ main_files = <<>> /\ main_dirs = <<>>
    /\ dialog = "closed" /\ typed = <<>> /\ confirm = "none" /\ keys = 0
    /\ is_running = TRUE
    /\ ui_events = <<>>
    /\ suppress \in BOOLEAN
    /\ job = "stow" /\ stow_list = <<>> /\ sel0 = {}
    /\ calls = 1 /\ runs = 1 /\ nres = 0 /\ nshown = 0
    /\ loop = "top"
    /\ dirty = FALSE
    /\ recent \in BOOLEAN
    /\ painted = {Starting}
    /\ PaneIdle

\* one step of the main loop, one step of the thread
LoopStep == DrainEvent \/ LoopGetch \/ LoopTick \/ DrawPaint \/ DrawDone
ThreadStep == LogAppend \/ LogMark \/ FuncReturn \/ WorkerFinish \/ ThreadExit

NextLog ==
    \/ LogAppend
    \/ LogMark
    \/ FuncReturn
    \/ WorkerFinish
    \/ ThreadExit
    \/ DrainEvent
    \/ LoopGetch
    \/ LoopTick
    \/ DrawPaint
    \/ DrawDone

\* the loop keeps ticking and the thread keeps running
SpecLog == InitLog /\ [][NextLog]_vars /\ WF_vars(LoopStep) /\ WF_vars(ThreadStep)

\* C32: every line the thread appends to the log is painted by some later
\* draw of the main loop
C32_EveryLineRendered ==
    \A k \in 1..MaxLines : (i > k) ~> (Line(k) \in painted)

----------------------------------------------------------------------------
\* The worker called a second time with the targets of the first call; the
\* toggles in the environment may have changed in between

MaxRuns == 2

\* the calls of the worker so far: each one logs its plan first (line 217)
RunsStarted == Cardinality({k \in 1..Len(log) : log[k].msg = "Planned removals"})

\* selective_cleanup_worker(files, dirs, logger) is called again
WorkerAgain ==
    /\ pc = "done" /\ RunsStarted < MaxRuns
    /\ pc' = "start"
    /\ env_dry' \in {"0", "1"}
    /\ env_force' \in {"0", "1"}
    /\ UNCHANGED <<fs, fs0, denied, files, dirs, dry, force, i, dirs_sorted, files_removed,
                   dirs_removed, skipped, errors, log, hist, summary, gvars, uvars>>

InitAgain ==
    /\ fs \in Filesystems
    /\ fs0 = fs
    /\ denied = {}
    /\ files \in {l \in FileLists : Len(l) <= 1}
    /\ dirs \in {l \in DirLists : Len(l) <= 2}
    /\ env_dry \in {"0", "1"}
    /\ env_force \in {"0", "1"}
    /\ dry = FALSE /\ force = FALSE
    /\ pc = "start"
    /\ i = 1
    /\ dirs_sorted = <<>>
    /\ files_removed = 0 /\ dirs_removed = 0 /\ skipped = 0 /\ errors = 0
    /\ log = <<>>
    /\ hist = <<>>
    /\ summary = [files_removed |-> 0, dirs_removed |-> 0, skipped |-> 0,
                  errors |-> 0, dry_run |-> FALSE]
    /\ GuardIdle
    /\ MainIdle

NextAgain ==
    \/ WorkerStart
    \/ FileStep
    \/ SortDirs
    \/ DirStep
    \/ WorkerReturn
    \/ WorkerAgain

SpecAgain == InitAgain /\ [][NextAgain]_vars

\* the number of targets, and the first call removed every one of them
PlanSize == Len(files) + Len(dirs)
FirstRemovedAll ==
    /\ Len(hist) >= PlanSize
    /\ \A k \in 1..PlanSize : hist[k].files_removed + hist[k].dirs_removed = 1

\* C34: when a first call has removed every target, a second call with the
\* same targets, whatever the toggles say by then, skips every target as
\* not found, leaves the filesystem as the first call left it and returns
\* files_removed = dirs_removed = errors = 0, skipped = len(files) + len(dirs)
C34_SecondRunSkipsAll ==
    (RunsStarted = 2 /\ FirstRemovedAll) =>
      /\ \A k \in (PlanSize + 1)..Len(hist) :
           /\ hist[k].post = hist[k].pre
           /\ hist[k].skipped = 1
           /\ hist[k].msg \in {"skip: not found", "skip dir: not found"}
      /\ PlanSize > 0 => fs = hist[PlanSize].post
      /\ pc = "done" =>
           /\ Len(hist) = 2 * PlanSize
           /\ summary.files_removed = 0 /\ summary.dirs_removed = 0
           /\ summary.errors = 0 /\ summary.skipped = PlanSize

\* the first call removed a file, a link and a directory; the second call,
\* with force, has returned
C34_Witness ==
    /\ pc = "done" /\ RunsStarted = 2 /\ FirstRemovedAll /\ ModeForce /\ ModeNormal
    /\ PlanSize = 3
    /\ \E k \in 1..PlanSize : Lstat(hist[k].pre, hist[k].path).k = "link"
    /\ \E k \in 1..PlanSize : hist[k].dirs_removed = 1
    /\ summary.skipped = 3
    /\ fs # fs0

----------------------------------------------------------------------------
\* The directories above an enumerated target

\* the paths strictly between home and t
Between(t) == {SubSeq(t, 1, k) : k \in (Len(HOME) + 1)..(Len(t) - 1)}

\* C35: for every file target and every directory target that
\* enumerate_stow_targets_for_pkgs returns, each proper ancestor strictly
\* between home and the target is itself a directory target of the same call
C35_DirsClosedUnderAncestors ==
    \A c \in Calls :
      \A t \in Range(ecalls[c].files) \cup Range(ecalls[c].dirs) :
        IsPrefix(HOME, t) => Between(t) \subseteq Range(ecalls[c].dirs)

C35_Witness ==
    \E c \in Calls :
      /\ \E t \in Range(ecalls[c].files) : Len(t) = Len(HOME) + 3
      /\ \E t \in Range(ecalls[c].dirs) : Len(t) = Len(HOME) + 2
      /\ \A t \in Range(ecalls[c].files) \cup Range(ecalls[c].dirs) :
           IsPrefix(HOME, t) /\ Between(t) \subseteq Range(ecalls[c].dirs)

----------------------------------------------------------------------------
\* The four panes: cursor, selection keys, filter and refresh

MaxFilterKeys == 2

\* the characters of the names the four lists hold
Chars(name) ==
    CASE name = "vim" -> <<"v", "i", "m">>
      [] name = "zsh" -> <<"z", "s", "h">>
      [] name = "Ivy" -> <<"I", "v", "y">>
      [] name = "zen" -> <<"z", "e", "n">>

\* str.lower over these characters
lower(s) ==
    [k \in 1..Len(s) |-> CASE s[k] = "I" -> "i" [] s[k] = "Z" -> "z" [] OTHER -> s[k]]

\* needle in hay, for two strings
Contains(needle, hay) ==
    \E k \in 0..(Len(hay) - Len(needle)) : SubSeq(hay, k + 1, k + Len(needle)) = needle

\* apply_filter, lines 839-849: one filtered list
FilterList(l, text) ==
    LET ft == lower(text)
        Keep(n) == Contains(ft, lower(Chars(n)))
    IN  IF text = <<>> THEN l ELSE SelectSeq(l, Keep)

\* apply_filter: the four filtered lists, and idx clamped to the current one
apply_filter(its, text, pane, ix) ==
    LET f == [p \in Panes |-> FilterList(its[p], text)]
    IN  [filtered |-> f, idx |-> Min(ix, Max(0, Len(f[pane]) - 1))]

\* get_current_data: the selection set of a pane
Sel(p) == IF p = 0 THEN selected_stow ELSE selected[p]
AllSel == [p \in Panes |-> Sel(p)]

\* the current pane's selection set becomes S
SetSel(S) ==
    /\ selected_stow' = IF current_pane = 0 THEN S ELSE selected_stow
    /\ selected' = IF current_pane = 0 THEN selected
                   ELSE [selected EXCEPT ![current_pane] = S]

PaneKey == MainReady /\ keys < MaxKeys /\ keys' = keys + 1

\* Tab, lines 1184-1187
SwitchPane ==
    /\ PaneKey
    /\ current_pane' = (current_pane + 1) % 4
    /\ LET a == apply_filter(pane_items, filter_text, current_pane', 0)
       IN  filtered' = a.filtered /\ idx' = a.idx
    /\ bulk' = NoBulk
    /\ UNCHANGED <<stow, selected_stow, selected, filter_text, pane_items, main_files,
                   main_dirs, dialog, typed, confirm, is_running, ui_events, suppress,
                   stow_list, nres, nshown, dvars, wvars, cwd, gpath, gres, ecalls,
                   tvars, loop, dirty, recent, painted>>

\* KEY_UP / "k", line 1189
MoveUp ==
    /\ PaneKey
    /\ idx' = Max(0, idx - 1)
    /\ bulk' = NoBulk
    /\ UNCHANGED <<stow, selected_stow, selected, filter_text, pane_items, filtered,
                   current_pane, main_files,
                   main_dirs, dialog, typed, confirm, is_running, ui_events, suppress,
                   stow_list, nres, nshown, dvars, wvars, cwd, gpath, gres, ecalls,
                   tvars, loop, dirty, recent, painted>>

\* KEY_DOWN / "j", lines 1190-1192
MoveDown ==
    /\ PaneKey
    /\ idx' = Min(Max(0, Len(filtered[current_pane]) - 1), idx + 1)
    /\ bulk' = NoBulk
    /\ UNCHANGED <<stow, selected_stow, selected, filter_text, pane_items, filtered,
                   current_pane, main_files,
                   main_dirs, dialog, typed, confirm, is_running, ui_events, suppress,
                   stow_list, nres, nshown, dvars, wvars, cwd, gpath, gres, ecalls,
                   tvars, loop, dirty, recent, painted>>

Flip(S, item) == IF item \in S THEN S \ {item} ELSE S \cup {item}

\* Space, lines 1215-1222: the item under the cursor is toggled
Toggle ==
    /\ PaneKey
    /\ LET current_filtered == filtered[current_pane]
       IN  IF current_filtered # <<>> /\ idx < Len(current_filtered)
             THEN SetSel(Flip(Sel(current_pane), current_filtered[idx + 1]))
             ELSE UNCHANGED <<selected_stow, selected>>
    /\ bulk' = NoBulk
    /\ UNCHANGED <<stow, idx, filter_text, pane_items, filtered,
                   current_pane, main_files,
                   main_dirs, dialog, typed, confirm, is_running, ui_events, suppress,
                   stow_list, nres, nshown, dvars, wvars, cwd, gpath, gres, ecalls,
                   tvars, loop, dirty, recent, painted>>

\* (variant: every item of the pane is selected, shown or not)
SelectAll_items ==
    /\ PaneKey
    /\ SetSel(Sel(current_pane) \cup Range(pane_items[current_pane]))
    /\ bulk' = [key |-> "A", pre |-> AllSel]
    /\ UNCHANGED <<stow, idx, filter_text, pane_items, filtered,
                   current_pane, main_files,
                   main_dirs, dialog, typed, confirm, is_running, ui_events, suppress,
                   stow_list, nres, nshown, dvars, wvars, cwd, gpath, gres, ecalls,
                   tvars, loop, dirty, recent, painted>>

\* "A" / "a", lines 1223-1225: current_selected.update(current_filtered)
SelectAll ==
    /\ PaneKey
    /\ SetSel(Sel(current_pane) \cup Range(filtered[current_pane]))
    /\ bulk' = [key |-> "A", pre |-> AllSel]
    /\ UNCHANGED <<stow, idx, filter_text, pane_items, filtered,
                   current_pane, main_files,
                   main_dirs, dialog, typed, confirm, is_running, ui_events, suppress,
                   stow_list, nres, nshown, dvars, wvars, cwd, gpath, gres, ecalls,
                   tvars, loop, dirty, recent, painted>>

\* "U" / "u", lines 1226-1229: each filtered item is discarded
UnselectAll ==
    /\ PaneKey
    /\ SetSel(Sel(current_pane) \ Range(filtered[current_pane]))
    /\ bulk' = [key |-> "U", pre |-> AllSel]
    /\ UNCHANGED <<stow, idx, filter_text, pane_items, filtered,
                   current_pane, main_files,
                   main_dirs, dialog, typed, confirm, is_running, ui_events, suppress,
                   stow_list, nres, nshown, dvars, wvars, cwd, gpath, gres, ecalls,
                   tvars, loop, dirty, recent, painted>>

\* the loop of lines 1232-1236: one toggle per list position, in order
RECURSIVE FlipEach(_, _)
FlipEach(S, l) == IF l = <<>> THEN S ELSE FlipEach(Flip(S, Head(l)), Tail(l))

\* "I" / "i", lines 1230-1236
Invert ==
    /\ PaneKey
    /\ SetSel(FlipEach(Sel(current_pane), filtered[current_pane]))
    /\ bulk' = IF bulk.key = "I" THEN [key |-> "II", pre |-> bulk.pre]
               ELSE [key |-> "I", pre |-> AllSel]
    /\ UNCHANGED <<stow, idx, filter_text, pane_items, filtered,
                   current_pane, main_files,
                   main_dirs, dialog, typed, confirm, is_running, ui_events, suppress,
                   stow_list, nres, nshown, dvars, wvars, cwd, gpath, gres, ecalls,
                   tvars, loop, dirty, recent, painted>>

\* what the loaders can return: list_packages() over the package
\* directories, sorted(themes_map.keys()), package_plan(cfg) and the plugin
\* names of cfg["repos"], the last two in configuration order with repeats
Loads ==
    [stow : {[p \in PkgNames |-> IF p \in S THEN Pkg({}) ELSE NoPkg] :
                S \in {{"vim"}, {"vim", "zsh"}}},
     themes : {<<"Ivy", "zen">>, <<"zen">>},
     sys : {<<"vim", "zsh", "vim">>, <<"zsh">>},
     plugins : {<<"zsh">>, <<>>}]

\* the four lists of one load, while list_packages reads st
Lists(st, l) ==
    [p \in Panes |-> CASE p = 0 -> SelectSeq(PkgOrder, LAMBDA n : st[n].kind = "dir")
                       [] p = 1 -> l.themes
                       [] p = 2 -> l.sys
                       [] p = 3 -> l.plugins]

\* (variant: the selections are left as they are)
Refresh_keep ==
    /\ PaneKey
    /\ \E l \in Loads :
         /\ stow' = l.stow
         /\ pane_items' = Lists(l.stow, l)
         /\ UNCHANGED <<selected_stow, selected>>
         /\ LET a == apply_filter(pane_items', filter_text, current_pane, idx)
            IN  filtered' = a.filtered /\ idx' = a.idx
    /\ log' = Append(log, Entry("info", "Data refreshed", <<>>))
    /\ dirty' = TRUE
    /\ bulk' = [key |-> "r", pre |-> AllSel]
    /\ UNCHANGED <<filter_text, current_pane, main_files,
                   main_dirs, dialog, typed, confirm, is_running, ui_events, suppress,
                   stow_list, nres, nshown, dvars, cwd, gpath, gres, ecalls,
                   tvars, loop, recent, painted,
                   fs, fs0, denied, files, dirs, env_dry, env_force, dry, force, pc, i,
                   dirs_sorted, files_removed, dirs_removed, skipped, errors, hist,
                   summary>>

\* "r", lines 1268-1285: the four lists are reloaded, each selection keeps
\* the names still listed, the filter is applied again, one line is logged
Refresh ==
    /\ PaneKey
    /\ \E l \in Loads :
         /\ stow' = l.stow
         /\ pane_items' = Lists(l.stow, l)
         /\ selected_stow' = selected_stow \cap Range(pane_items'[0])
         /\ selected' = [p \in Panes \ {0} |-> selected[p] \cap Range(pane_items'[p])]
         /\ LET a == apply_filter(pane_items', filter_text, current_pane, idx)
            IN  filtered' = a.filtered /\ idx' = a.idx
    /\ log' = Append(log, Entry("info", "Data refreshed", <<>>))
    /\ dirty' = TRUE
    /\ bulk' = [key |-> "r", pre |-> AllSel]
    /\ UNCHANGED <<filter_text, current_pane, main_files,
                   main_dirs, dialog, typed, confirm, is_running, ui_events, suppress,
                   stow_list, nres, nshown, dvars, cwd, gpath, gres, ecalls,
                   tvars, loop, recent, painted,
                   fs, fs0, denied, files, dirs, env_dry, env_force, dry, force, pc, i,
                   dirs_sorted, files_removed, dirs_removed, skipped, errors, hist,
                   summary>>

\* the keys the filter prompt reads before Enter or Escape: two printable
\* characters and backspace
FilterKeys == {"v", "Z", "BS"}

\* the loop of lines 1300-1311 over the keys ks, from filter_input = text
RECURSIVE Edited(_, _)
Edited(text, ks) ==
    IF ks = <<>> THEN text
    ELSE Edited(IF Head(ks) = "BS"
                  THEN (IF text # <<>> THEN SubSeq(text, 1, Len(text) - 1) ELSE text)
                  ELSE Append(text, Head(ks)),
                Tail(ks))

\* "/", lines 1290-1319: the prompt starts from the current filter, Enter
\* keeps the edited text, Escape clears it; the filter is applied
Filter ==
    /\ PaneKey
    /\ \E ks \in UNION {[1..n -> FilterKeys] : n \in 0..MaxFilterKeys}, end \in {"Enter", "Esc"} :
         /\ filter_text' = IF end = "Esc" THEN <<>> ELSE Edited(filter_text, ks)
         /\ LET a == apply_filter(pane_items, filter_text', current_pane, idx)
            IN  filtered' = a.filtered /\ idx' = a.idx
    /\ bulk' = NoBulk
    /\ UNCHANGED <<stow, selected_stow, selected, pane_items,
                   current_pane, main_files,
                   main_dirs, dialog, typed, confirm, is_running, ui_events, suppress,
                   stow_list, nres, nshown, dvars, wvars, cwd, gpath, gres, ecalls,
                   tvars, loop, dirty, recent, painted>>

\* main after lines 781-804: the lists are loaded, everything is selected,
\* no filter, the cursor on the first stow package
InitPanes ==
    /\ fs = [n \in Nodes |-> IF n \in {OUT, INSIDE} THEN DIR ELSE NONE]
    /\ fs0 = fs
    /\ denied = {}
    /\ env_dry = "0" /\ env_force = "0"
    /\ WorkerQuiet
    /\ GuardIdle
    /\ \E l \in Loads :
         /\ stow = l.stow
         /\ pane_items = Lists(l.stow, l)
    /\ selected_stow = Range(pane_items[0])
    /\ selected = [p \in Panes \ {0} |-> Range(pane_items[p])]
    /\ filter_text = <<>>
    /\ filtered = pane_items
    /\ current_pane = 0
    /\ idx = 0
    /\ bulk = NoBulk
    /\ main_files = <<>> /\ main_dirs = <<>>
    /\ dialog = "closed" /\ typed = <<>> /\ confirm = "none" /\ keys = 0
    /\ is_running = FALSE
    /\ ui_events = <<>>
    /\ suppress = FALSE
    /\ job = "none" /\ stow_list = <<>> /\ sel0 = {}
    /\ calls = 0 /\ runs = 0 /\ nres = 0 /\ nshown = 0
    /\ loop = "top" /\ dirty = FALSE /\ recent = FALSE /\ painted = {}

NextPanes ==
    \/ SwitchPane
    \/ MoveUp
    \/ MoveDown
    \/ Toggle
    \/ SelectAll
    \/ UnselectAll
    \/ Invert
    \/ Refresh
    \/ Filter

SpecPanes == InitPanes /\ [][NextPanes]_vars

\* C36: after any sequence of toggle, select all, unselect all, invert,
\* filter, Tab and refresh keys, each pane's selection set is a subset of
\* that pane's current item list; after a refresh no name missing from the
\* reloaded lists is selected
C36_SelectionWithinItems ==
    \A p \in Panes : Sel(p) \subseteq Range(pane_items[p])

C36_Witness ==
    /\ bulk.key = "r"
    /\ \E p \in Panes : ~(bulk.pre[p] \subseteq Range(pane_items[p]))
    /\ \A p \in Panes : Sel(p) = bulk.pre[p] \cap Range(pane_items[p])

\* the names the current pane shows
Shown == Range(filtered[current_pane])

\* C37: select all, unselect all and invert leave the selection state of
\* every item the filter hides and of every item of the other panes as it
\* was before the key; two inverts in a row restore the selection
C37_BulkKeysActOnShownItems ==
    bulk.key \in {"A", "U", "I", "II"} =>
      /\ \A p \in Panes \ {current_pane} : Sel(p) = bulk.pre[p]
      /\ Sel(current_pane) \ Shown = bulk.pre[current_pane] \ Shown
      /\ bulk.key = "II" => AllSel = bulk.pre

C37_Witness ==
    /\ bulk.key = "II"
    /\ filter_text # <<>>
    /\ Shown # {}
    /\ Range(pane_items[current_pane]) \ Shown # {}
    /\ Sel(current_pane) \ Shown # {}
    /\ \E p \in Panes \ {current_pane} : Sel(p) # {}
    /\ AllSel = bulk.pre

====
